---- MODULE Spec2Model ----
(***************************************************************************)
(* State-machine model of the listenhacks mixer engine.                    *)
(*                                                                         *)
(* The engine (registry, recording controller, transport and loop state    *)
(* machine) follows the audio module whose text starts at line 343 of      *)
(* src/unnamed/part_004; the command dispatcher and the delay-effect       *)
(* parameters follow src/mixer/js/actions.js and src/mixer/js/audio.js.    *)
(*                                                                         *)
(* All times are integers in microseconds.  performance.now() and the      *)
(* audio context clock are one clock, `now`, which advances in steps of    *)
(* TickUs.  A nullable field holds Null when the code holds null.          *)
(***************************************************************************)
EXTENDS Integers, Sequences, FiniteSets, TLC

Null == -1

\* ------------------------------------------------------------------ bounds
TickUs == 100000
MaxTicks == 2
MaxClips == 2
MaxTransports == 3
MaxDecodeTicks == 1
MaxRemoteIds == 257
EffectSampleRate == 1000
MaxBlocks == 5
BlockFrames == 16
SelfTestBlock == 8
MaxTracks == 4
MaxSongs == 1

\* ------------------------------------------------------- program constants
STOP_FADE_SECONDS == 70000
OVERLAP_EPSILON == 500
MIN_LOOP_REGION_SECONDS == 50000
SAMPLE_RATE == 48000
SOFT_CLIP_GAIN == 1150
MAX_SEEN_ACTIONS == 256

\* ------------------------------------------------------------------ utils
Min2(a, b) == IF a <= b THEN a ELSE b
Max2(a, b) == IF a >= b THEN a ELSE b

\* utils.js clamp: Math.min(max, Math.max(min, value))
clamp(value, lo, hi) == Min2(hi, Max2(lo, value))

\* utils.js modulo
modulo(value, mod) == IF mod <= 0 THEN 0 ELSE ((value % mod) + mod) % mod

\* Number(x.toFixed(d)) on a non-negative time: round to the nearest multiple
\* of `quantum` microseconds (1000 for d = 3, 10000 for d = 2).
ToFixed(value, quantum) == ((value + (quantum \div 2)) \div quantum) * quantum
toFixed3(value) == ToFixed(value, 1000)
toFixed2(value) == ToFixed(value, 10000)

\* Math.round(x / d) for non-negative x
RoundDiv(x, d) == (2 * x + d) \div (2 * d)

SeqToSet(s) == {s[i] : i \in 1..Len(s)}

SetMin(S) == CHOOSE x \in S : \A y \in S : x <= y
SetMax(S) == CHOOSE x \in S : \A y \in S : x >= y

VARIABLES
    now,          \* the wall clock / audio context clock, microseconds
    appState,     \* the shared session object of state.js
    effects,      \* appState.effects.delay of the delay-effect build
    sources,      \* buffer source nodes started and not yet reported ended
    recorder,     \* the MediaRecorder: its state and its queued stop event
    finalizing,   \* the locals of a finalizeRecording suspended in decode
    timers,       \* pending setTimeout deadlines (auto-stop timers)
    nextTransportId,  \* the next fresh transportId
    lastEnded,    \* the latest ended callback delivered: its transport and
                  \* whether that transport was still the active one
    agenda,       \* the operator: free to dispatch any command at any time, or
                  \* following a script of timed commands
    lastAction,   \* the latest dispatchAction: its type, the error it threw
                  \* ("none" if it returned) and the offset it captured
    remote,       \* the push channel's receiver: the ids it remembers, and
                  \* which ids it has dispatched, dropped and dispatched again
    mixed,        \* a call of the mix builder: its window, its clips and the
                  \* buffer it returned
    assignment,   \* a call of track assignment: the range and the excluded
                  \* clip it was asked about, the tracks before it, the track
                  \* it returned
    effectState   \* the echo/reverb processor: its parameters, delay lines and
                  \* filter states, the block it produced last and the
                  \* self-test's running sums

vars == <<now, appState, effects, sources, recorder, finalizing, timers,
          nextTransportId, lastEnded, agenda, lastAction, remote, mixed, assignment, effectState>>

\* An AudioBuffer: its length in frames, its duration and the ids of the clips
\* mixed into it.  NoBuffer stands for null.
NoBuffer == [ frames |-> 0, duration |-> 0, content |-> {} ]

\* ---------------------------------------------------------------- state.js
InitialPlayback ==
    [ source |-> Null, clipId |-> Null, duration |-> 0, startOffset |-> 0,
      startedAt |-> 0, playbackRate |-> 1, loop |-> FALSE,
      manualStopReason |-> "none", transportId |-> Null, baseStartSec |-> 0,
      mode |-> "clip" ]

InitialAppState ==
    [ audioReady |-> FALSE,
      micEnabled |-> FALSE,
      context |-> FALSE,
      mediaRecorder |-> FALSE,
      sessionStartSec |-> Null,
      recordingActive |-> FALSE,
      recordingClipId |-> Null,
      recordingStart |-> 0,
      recordingAutoStopTimer |-> Null,
      pendingStatusMessage |-> "none",
      isPlaybackPlaying |-> FALSE,
      isLooping |-> FALSE,
      isPlaybackPaused |-> FALSE,
      playbackPausedOffset |-> 0,
      activeTransportId |-> Null,
      loopRegionStartSec |-> Null,
      loopRegionLengthSec |-> 0,
      loopSelectionStartSec |-> Null,
      loopMixBuffer |-> NoBuffer,
      playback |-> InitialPlayback,
      playbackPlayheadSec |-> 0,
      tracks |-> <<1>>,
      activeTrackId |-> 1,
      clips |-> <<>>,
      selectedClipId |-> Null,
      nextClipIndex |-> 1 ]

\* getClipById: HasClip says whether find() returns a clip, ClipById is that clip
HasClip(a, id) == \E i \in 1..Len(a.clips) : a.clips[i].id = id
ClipById(a, id) == a.clips[SetMin({i \in 1..Len(a.clips) : a.clips[i].id = id})]

\* nowSessionSec of utils.js
nowSessionSec(a, t) == IF a.sessionStartSec = Null THEN 0 ELSE t - a.sessionStartSec

\* ------------------------------------------------ clip / track registry
intervalsOverlap(startA, endA, startB, endB) == startA < endB /\ endA > startB

clipIntervalAtTime(a, clip, nowSec) ==
    LET start == clip.startTimeSec
        stored == IF clip.endTimeSec = Null THEN start ELSE clip.endTimeSec
    IN  IF clip.status = "ready" THEN <<start, stored>>
        ELSE IF clip.status = "recording" /\ a.recordingActive THEN <<start, nowSec>>
        ELSE <<start, stored>>

lastReadyClipEndTimeSec(a) ==
    LET readyClips == SelectSeq(a.clips, LAMBDA c : c.status = "ready" /\ c.endTimeSec # Null)
    IN  IF Len(readyClips) = 0 THEN Null ELSE readyClips[Len(readyClips)].endTimeSec

hasTimeOverlap(a, t, trackId, probeStart, probeEnd, excludeClipId) ==
    LET nowSec == nowSessionSec(a, t)
    IN  \E i \in 1..Len(a.clips) :
            LET clip == a.clips[i]
                interval == clipIntervalAtTime(a, clip, nowSec)
            IN  /\ clip.id # excludeClipId
                /\ clip.trackId = trackId
                /\ intervalsOverlap(probeStart, probeEnd, interval[1], interval[2])

\* createNewTrack that hands out the newest existing track instead of a new one
createNewTrack_Reuse(a) ==
    [ app |-> a, trackId |-> a.tracks[Len(a.tracks)] ]

createNewTrack(a) ==
    LET newTrackId == Len(a.tracks) + 1
    IN  [ app |-> [a EXCEPT !.tracks = Append(@, newTrackId)], trackId |-> newTrackId ]

\* getTrackForTimeRange that walks the tracks from the newest to the oldest
getTrackForTimeRange_LastFit(a, t, probeStart, probeEnd, excludeClipId) ==
    LET free == { i \in 1..Len(a.tracks) :
                    ~hasTimeOverlap(a, t, a.tracks[i], probeStart, probeEnd, excludeClipId) }
        newTrackId == Len(a.tracks) + 1
    IN  IF free # {}
        THEN [ app |-> a, trackId |-> a.tracks[SetMax(free)] ]
        ELSE [ app |-> [a EXCEPT !.tracks = Append(@, newTrackId)], trackId |-> newTrackId ]

getTrackForTimeRange(a, t, probeStart, probeEnd, excludeClipId) ==
    LET free == { i \in 1..Len(a.tracks) :
                    ~hasTimeOverlap(a, t, a.tracks[i], probeStart, probeEnd, excludeClipId) }
        newTrackId == Len(a.tracks) + 1
    IN  IF free # {}
        THEN [ app |-> a, trackId |-> a.tracks[SetMin(free)] ]
        ELSE [ app |-> [a EXCEPT !.tracks = Append(@, newTrackId)], trackId |-> newTrackId ]

getTrackForRecordingStart(a, t, startSec) ==
    getTrackForTimeRange(a, t, startSec, startSec + OVERLAP_EPSILON, Null)

\* a reassignment that moves the clip to the start of the session instead of
\* to another track
assignClipToNonOverlappingTrack_Rebase(a, t, clipId) ==
    [ a EXCEPT !.clips = [ i \in 1..Len(@) |->
                             IF @[i].id = clipId THEN [ @[i] EXCEPT !.startTimeSec = 0 ]
                             ELSE @[i] ] ]

assignClipToNonOverlappingTrack(a, t, clipId) ==
    IF ~HasClip(a, clipId) THEN a
    ELSE
    LET clip == ClipById(a, clipId)
    IN  IF clip.status # "ready" \/ clip.endTimeSec = Null THEN a
        ELSE IF clip.lockTrack THEN a
        ELSE LET r == getTrackForTimeRange(a, t, clip.startTimeSec, clip.endTimeSec, clip.id)
             IN  IF r.trackId # clip.trackId
                 THEN [ r.app EXCEPT
                          !.clips = [ i \in 1..Len(@) |->
                                        IF @[i].id = clipId
                                        THEN [ @[i] EXCEPT !.trackId = r.trackId ]
                                        ELSE @[i] ],
                          !.activeTrackId = r.trackId ]
                 ELSE r.app

\* --------------------------------------------------------- delay effect
\* Feedback is held in hundredths: 65 stands for 0.65.
delayFeedbackMax(delayState) == IF delayState.advancedClamp THEN 75 ELSE 65

getDelayFeedbackMax(delayState) == delayFeedbackMax(delayState)

\* updateEffectsNodes on appState.effects; hasContext: the audio context and
\* its nodes exist
updateEffectsNodes(fx, hasContext) ==
    IF ~hasContext THEN fx
    ELSE [ fx EXCEPT !.delay.feedback = clamp(@, 0, delayFeedbackMax(fx.delay)) ]

\* dispatchAction SET_DELAY_FEEDBACK with payload.value = value
setDelayFeedback(fx, hasContext, value) ==
    LET maxFeedback == getDelayFeedbackMax(fx.delay)
    IN  updateEffectsNodes([ fx EXCEPT !.delay.feedback = clamp(value, 0, maxFeedback) ],
                           hasContext)

\* dispatchAction SET_DELAY_ADVANCED_CLAMP with payload.enabled = enabled
setDelayAdvancedClamp(fx, hasContext, enabled) ==
    updateEffectsNodes([ fx EXCEPT !.delay.advancedClamp = enabled ], hasContext)

\* playbackRateFromAutotune: Math.pow(2, semitones / 12), a whole number for
\* the shifts of no octave and of one octave up, the shifts that are tried
playbackRateFromAutotune(fx) ==
    IF ~fx.autotune.enabled THEN 1
    ELSE IF fx.autotune.semitones = 12 THEN 2 ELSE 1

\* updateEffectsNodes on appState.playback: the rate of the source that plays
\* is ramped to the autotune rate and playback.playbackRate is set to it
updatePlaybackRate(a, fx) ==
    IF ~a.context \/ a.playback.source = Null THEN a
    ELSE [ a EXCEPT !.playback.playbackRate = playbackRateFromAutotune(fx) ]

\* dispatchAction SET_AUTOTUNE_ENABLED with payload.enabled = enabled
setAutotuneEnabled(fx, hasContext, enabled) ==
    updateEffectsNodes([ fx EXCEPT !.autotune.enabled = enabled ], hasContext)

\* dispatchAction SET_AUTOTUNE_SEMITONES with payload.value = value
setAutotuneSemitones(fx, hasContext, value) ==
    updateEffectsNodes([ fx EXCEPT !.autotune.semitones = clamp(value, -12, 12) ],
                       hasContext)

\* ---------------------------------------------------------- mix buffers
getReadyClipsWithTime(a) ==
    SelectSeq(a.clips, LAMBDA c : /\ c.status = "ready"
                                  /\ c.buffer # Null
                                  /\ c.endTimeSec # Null
                                  /\ c.endTimeSec > c.startTimeSec)

\* AudioBuffer.duration = length / sampleRate, in microseconds
BufferDuration(frames) == (frames * 1000) \div (SAMPLE_RATE \div 1000)

\* a mix builder that truncates the frame count
buildMixedBufferForWindow_Truncated(a, windowStartSec, windowLengthSec, readyClips) ==
    IF ~a.context \/ windowStartSec = Null \/ windowLengthSec <= 0 THEN NoBuffer
    ELSE LET mixEnd == windowStartSec + windowLengthSec
             bufferFrames == Max2(1, (windowLengthSec * (SAMPLE_RATE \div 1000)) \div 1000)
             overlapping == { c \in SeqToSet(readyClips) :
                                intervalsOverlap(windowStartSec, mixEnd, c.startTimeSec, c.endTimeSec) }
         IN  [ frames |-> bufferFrames,
               duration |-> BufferDuration(bufferFrames),
               content |-> { c.id : c \in overlapping } ]

buildMixedBufferForWindow(a, windowStartSec, windowLengthSec, readyClips) ==
    IF ~a.context \/ windowStartSec = Null \/ windowLengthSec <= 0 THEN NoBuffer
    ELSE LET mixEnd == windowStartSec + windowLengthSec
             bufferFrames == Max2(1, RoundDiv(windowLengthSec * (SAMPLE_RATE \div 1000), 1000))
             overlapping == { c \in SeqToSet(readyClips) :
                                intervalsOverlap(windowStartSec, mixEnd, c.startTimeSec, c.endTimeSec) }
         IN  [ frames |-> bufferFrames,
               duration |-> BufferDuration(bufferFrames),
               content |-> { c.id : c \in overlapping } ]

buildLoopMixBuffer(a) ==
    IF ~a.context \/ a.loopRegionStartSec = Null \/ a.loopRegionLengthSec <= 0 THEN NoBuffer
    ELSE buildMixedBufferForWindow(a, a.loopRegionStartSec, a.loopRegionLengthSec,
                                   getReadyClipsWithTime(a))

HasSessionRange(a) ==
    LET readyClips == getReadyClipsWithTime(a)
    IN  /\ Len(readyClips) > 0
        /\ SetMax({ c.endTimeSec : c \in SeqToSet(readyClips) })
             > SetMin({ c.startTimeSec : c \in SeqToSet(readyClips) })

\* getSessionRange, defined when HasSessionRange
getSessionRange(a) ==
    LET readyClips == SeqToSet(getReadyClipsWithTime(a))
    IN  [ sessionStartSec |-> SetMin({ c.startTimeSec : c \in readyClips }),
          sessionEndSec |-> SetMax({ c.endTimeSec : c \in readyClips }) ]

\* buildSessionPlaybackBuffer: buffer = NoBuffer stands for the null result
buildSessionPlaybackBuffer(a) ==
    IF ~a.context \/ ~HasSessionRange(a)
    THEN [ buffer |-> NoBuffer, sessionStartSec |-> 0, sessionLengthSec |-> 0 ]
    ELSE LET range == getSessionRange(a)
             len == range.sessionEndSec - range.sessionStartSec
         IN  [ buffer |-> buildMixedBufferForWindow(a, range.sessionStartSec, len,
                                                    getReadyClipsWithTime(a)),
               sessionStartSec |-> range.sessionStartSec,
               sessionLengthSec |-> len ]

\* ------------------------------------------------------------- transport
currentPlaybackOffset(a, t) ==
    IF a.playback.source = Null \/ ~a.context \/ a.playback.duration = 0
    THEN IF a.isPlaybackPaused THEN a.playbackPausedOffset ELSE a.playback.startOffset
    ELSE IF HasClip(a, a.playback.clipId) /\ ClipById(a, a.playback.clipId).duration = 0
    THEN 0
    ELSE LET elapsed == (t - a.playback.startedAt) * a.playback.playbackRate
             rawOffset == a.playback.startOffset + elapsed
         IN  IF a.playback.loop
             THEN modulo(rawOffset, a.playback.duration)
             ELSE clamp(rawOffset, 0, a.playback.duration)

updatePlayheadPosition(a, t) ==
    IF ~a.isPlaybackPlaying \/ a.playback.source = Null \/ ~a.context THEN a
    ELSE LET elapsed == (t - a.playback.startedAt) * a.playback.playbackRate
             rawOffset == a.playback.startOffset + elapsed
             baseStart == a.playback.baseStartSec
         IN  IF a.playback.loop
             THEN LET loopLength == IF a.playback.duration # 0 THEN a.playback.duration
                                    ELSE a.loopRegionLengthSec
                  IN  IF loopLength = 0
                      THEN [ a EXCEPT !.playbackPlayheadSec = baseStart ]
                      ELSE [ a EXCEPT !.playbackPlayheadSec = baseStart + modulo(rawOffset, loopLength) ]
             ELSE [ a EXCEPT !.playbackPlayheadSec =
                                baseStart + clamp(rawOffset, 0, a.playback.duration) ]

\* The audio graph's view of a source: it has finished playing when its
\* scheduled stop time has passed or, if it does not loop, when it has played
\* its buffer through.
SourceFinished(s, t) ==
    \/ s.stopAt # Null /\ t >= s.stopAt
    \/ ~s.loop /\ s.startOffset + (t - s.startedAt) >= s.duration

\* AudioScheduledSourceNode.stop(when): the last call before the source has
\* finished sets its stop time; a call on a finished source has no effect.
SourceStop(srcs, id, t, when) ==
    { IF s.id = id /\ ~SourceFinished(s, t) THEN [ s EXCEPT !.stopAt = when ] ELSE s
        : s \in srcs }

\* stopTransport: m is [app, sources, tid]; every reason the engine passes is
\* in the shouldFade list, so the stop is scheduled STOP_FADE_SECONDS ahead.
FadeReasons == {"pause", "manual", "endLoop", "replace", "stop", "stopLoop"}

stopTransport(m, t, reason) ==
    IF m.app.playback.source = Null THEN m
    ELSE [ m EXCEPT
             !.app.playback.manualStopReason = reason,
             !.sources = SourceStop(@, m.app.playback.source, t,
                                    IF reason \in FadeReasons THEN t + STOP_FADE_SECONDS ELSE t) ]

\* createTransport: the result carries ok = FALSE where the code returns false.
\* opts is [offset, loop, baseStartSec, mode, preserveLoopingState].
createTransport(m, t, buffer, opts) ==
    IF ~m.app.context \/ buffer = NoBuffer \/ buffer.duration = 0
    THEN [ app |-> m.app, sources |-> m.sources, tid |-> m.tid, ok |-> FALSE ]
    ELSE LET transportId == m.tid
             safeOffset == IF opts.loop
                           THEN modulo(opts.offset, buffer.duration)
                           ELSE clamp(opts.offset, 0, Max2(0, buffer.duration - 1))
             source == [ id |-> transportId,
                         loop |-> opts.loop,
                         preserveLoopingState |-> opts.preserveLoopingState,
                         duration |-> buffer.duration,
                         startOffset |-> safeOffset,
                         startedAt |-> t,
                         stopAt |-> Null ]
             playback == [ source |-> transportId,
                           clipId |-> Null,
                           duration |-> buffer.duration,
                           startOffset |-> safeOffset,
                           startedAt |-> t,
                           playbackRate |-> 1,
                           loop |-> opts.loop,
                           manualStopReason |-> "none",
                           transportId |-> transportId,
                           baseStartSec |-> opts.baseStartSec,
                           mode |-> opts.mode ]
         IN  [ app |-> [ m.app EXCEPT
                           !.playback = playback,
                           !.activeTransportId = transportId,
                           !.isPlaybackPlaying = TRUE,
                           !.isLooping = opts.preserveLoopingState,
                           !.isPlaybackPaused = FALSE,
                           !.playbackPausedOffset = 0,
                           !.playbackPlayheadSec = opts.baseStartSec + safeOffset ],
               sources |-> m.sources \cup {source},
               tid |-> m.tid + 1,
               ok |-> TRUE ]

\* source.onended of the transport behind source s, past its identity check
onendedBody(a, t, s) ==
         LET reason == a.playback.manualStopReason
             finalOffset == currentPlaybackOffset(a, t)
             paused == reason = "pause"
             loopLength == IF a.loopRegionLengthSec # 0 THEN a.loopRegionLengthSec
                           ELSE a.playback.duration
             playhead ==
                 IF s.loop
                 THEN IF loopLength # 0
                      THEN a.playback.baseStartSec + modulo(finalOffset, loopLength)
                      ELSE a.playback.baseStartSec
                 ELSE IF a.playback.mode = "session"
                 THEN IF paused
                      THEN a.playback.baseStartSec + clamp(finalOffset, 0, a.playback.duration)
                      ELSE a.playback.baseStartSec + a.playback.duration
                 ELSE IF HasClip(a, a.playback.clipId)
                 THEN LET currentClip == ClipById(a, a.playback.clipId)
                      IN  IF paused
                          THEN currentClip.startTimeSec + clamp(finalOffset, 0, currentClip.duration)
                          ELSE currentClip.startTimeSec + currentClip.duration
                 ELSE a.playback.baseStartSec
         IN  [ a EXCEPT
                 !.playback.source = Null,
                 !.playback.manualStopReason = "none",
                 !.isPlaybackPlaying = FALSE,
                 !.isPlaybackPaused = paused,
                 !.playbackPausedOffset = IF paused THEN finalOffset ELSE 0,
                 !.isLooping = IF paused THEN s.preserveLoopingState ELSE FALSE,
                 !.playbackPlayheadSec = playhead ]

\* an ended handler without the identity check
onended_Unguarded(a, t, s) == onendedBody(a, t, s)

\* source.onended of the transport behind source s
onended(a, t, s) ==
    IF a.activeTransportId # s.id THEN a
    ELSE onendedBody(a, t, s)

startLoopTransport(m, t, offsetSec) ==
    LET a == m.app
    IN  IF a.loopMixBuffer = NoBuffer \/ a.loopRegionLengthSec <= 0 \/ a.loopRegionStartSec = Null
        THEN [ app |-> m.app, sources |-> m.sources, tid |-> m.tid, ok |-> FALSE ]
        ELSE createTransport(m, t, a.loopMixBuffer,
                 [ offset |-> modulo(offsetSec, a.loopRegionLengthSec),
                   loop |-> TRUE,
                   baseStartSec |-> a.loopRegionStartSec,
                   mode |-> "loop",
                   preserveLoopingState |-> TRUE ])

refreshLoopTransportIfNeeded(m, t, preserveOffset) ==
    IF ~m.app.isLooping \/ m.app.loopRegionLengthSec = 0 THEN m
    ELSE LET a1 == [ m.app EXCEPT !.loopMixBuffer = buildLoopMixBuffer(m.app) ]
         IN  IF ~a1.isPlaybackPlaying \/ a1.loopMixBuffer = NoBuffer
             THEN [ m EXCEPT !.app =
                      IF a1.isPlaybackPaused
                      THEN [ a1 EXCEPT !.playbackPausedOffset =
                                          modulo(preserveOffset, a1.loopRegionLengthSec) ]
                      ELSE a1 ]
             ELSE LET stableOffset == modulo(preserveOffset, a1.loopRegionLengthSec)
                      stopped == stopTransport([ m EXCEPT !.app = a1 ], t, "replace")
                      started == startLoopTransport(stopped, t, stableOffset)
                  IN  [ app |-> started.app, sources |-> started.sources, tid |-> started.tid ]
\* ------------------------------------------------------ recording controller
loopRecordingStartSec(a, t) ==
    IF ~a.isLooping \/ ~a.isPlaybackPlaying \/ a.loopRegionStartSec = Null
         \/ a.loopRegionLengthSec <= 0
    THEN Null
    ELSE a.playback.baseStartSec + currentPlaybackOffset(a, t)

\* getRecordingStartSec that never looks at the loop
getRecordingStartSec_IgnoresLoop(a, t) ==
    LET lastEnd == lastReadyClipEndTimeSec(a)
    IN  IF lastEnd = Null THEN nowSessionSec(a, t) ELSE lastEnd

getRecordingStartSec(a, t) ==
    LET loopStart == loopRecordingStartSec(a, t)
        lastEnd == lastReadyClipEndTimeSec(a)
    IN  IF loopStart # Null THEN loopStart
        ELSE IF lastEnd = Null THEN nowSessionSec(a, t)
        ELSE lastEnd

\* a clearRecordingAutoStop that forgets the handle without clearTimeout
clearRecordingAutoStop_NoClearTimeout(a, tm) ==
    [ app |-> [ a EXCEPT !.recordingAutoStopTimer = Null ], timers |-> tm ]

\* clearRecordingAutoStop on [app, timers]
clearRecordingAutoStop(a, tm) ==
    IF a.recordingAutoStopTimer # Null
    THEN [ app |-> [ a EXCEPT !.recordingAutoStopTimer = Null ],
           timers |-> tm \ {a.recordingAutoStopTimer} ]
    ELSE [ app |-> a, timers |-> tm ]

\* The MediaRecorder: its state, whether its stop event is queued, when the
\* running capture started and the length of the capture just stopped.
IdleRecorder == [ state |-> "inactive", stopQueued |-> FALSE, startedAt |-> 0, captured |-> 0 ]

\* MediaRecorder.stop() on a recorder in state "recording": the recorder
\* becomes inactive and its stop event is queued.
RecorderStop(rec, t) ==
    [ state |-> "inactive", stopQueued |-> TRUE, startedAt |-> 0,
      captured |-> t - rec.startedAt ]

\* a catch block that resets the flags and leaves the pushed clip in the list
startRecordingRollback_KeepClip(a, clipId) ==
    [ a EXCEPT
        !.recordingActive = FALSE,
        !.recordingClipId = Null,
        !.selectedClipId = Null ]

\* startRecording's catch block: the clip just pushed is dropped again
startRecordingRollback(a, clipId) ==
    [ a EXCEPT
        !.clips = SelectSeq(@, LAMBDA c : c.id # clipId),
        !.recordingActive = FALSE,
        !.recordingClipId = Null,
        !.selectedClipId = Null ]

\* startRecording past its first guard.  startThrows: mediaRecorder.start()
\* throws.  Result: [app, recorder, timers, error].
startRecordingBody(a, t, rec, tm, startThrows) ==
    LET a0 == IF a.sessionStartSec = Null THEN [ a EXCEPT !.sessionStartSec = t ] ELSE a
        startSec == getRecordingStartSec(a0, t)
        resolvedStart == toFixed3(startSec)
        useDedicatedLoopTrack == loopRecordingStartSec(a0, t) # Null
        sel == IF useDedicatedLoopTrack THEN createNewTrack(a0)
               ELSE getTrackForRecordingStart(a0, t, startSec)
        clipNumber == a0.nextClipIndex
        clip == [ id |-> clipNumber,
                  trackId |-> sel.trackId,
                  startTimeSec |-> resolvedStart,
                  endTimeSec |-> Null,
                  duration |-> 0,
                  status |-> "recording",
                  buffer |-> Null,
                  lockTrack |-> useDedicatedLoopTrack,
                  maxDurationSec |-> IF useDedicatedLoopTrack THEN a0.loopRegionLengthSec ELSE Null ]
        pushed == [ sel.app EXCEPT
                      !.nextClipIndex = @ + 1,
                      !.clips = Append(@, clip),
                      !.selectedClipId = clip.id,
                      !.recordingClipId = clip.id,
                      !.activeTrackId = sel.trackId,
                      !.recordingStart = t,
                      !.recordingActive = TRUE ]
        cleared == clearRecordingAutoStop(pushed, tm)
        a1 == cleared.app
    IN  IF rec.state # "inactive"
        THEN [ app |-> a1, recorder |-> rec, timers |-> cleared.timers,
               error |-> "Recorder not ready for a new recording." ]
        ELSE IF startThrows
        THEN [ app |-> startRecordingRollback(a1, clip.id),
               recorder |-> rec, timers |-> cleared.timers,
               error |-> "MediaRecorder.start failed" ]
        ELSE LET arm == useDedicatedLoopTrack /\ clip.maxDurationSec > 0
                 deadline == t + Max2(1, RoundDiv(clip.maxDurationSec, 1000)) * 1000
             IN  [ app |-> [ a1 EXCEPT
                               !.recordingAutoStopTimer = IF arm THEN deadline ELSE @,
                               !.pendingStatusMessage = "Recording" ],
                   recorder |-> [ rec EXCEPT !.state = "recording", !.startedAt = t ],
                   timers |-> IF arm THEN cleared.timers \cup {deadline} ELSE cleared.timers,
                   error |-> "none" ]

\* startRecording; error "false" stands for the return value false
startRecording(a, t, rec, tm, startThrows) ==
    IF ~a.micEnabled \/ ~a.mediaRecorder \/ a.recordingActive
    THEN [ app |-> a, recorder |-> rec, timers |-> tm, error |-> "false" ]
    ELSE startRecordingBody(a, t, rec, tm, startThrows)

\* endRecording.  MediaRecorder.stop() on an inactive recorder throws
\* InvalidStateError.  Result: [app, recorder, timers, error].
endRecording(a, t, rec, tm) ==
    IF ~a.recordingActive \/ ~a.mediaRecorder
    THEN [ app |-> a, recorder |-> rec, timers |-> tm, error |-> "false" ]
    ELSE LET cleared == clearRecordingAutoStop(a, tm)
         IN  IF rec.state = "inactive"
             THEN [ app |-> cleared.app, recorder |-> rec, timers |-> cleared.timers,
                    error |-> "InvalidStateError" ]
             ELSE [ app |-> cleared.app, recorder |-> RecorderStop(rec, t),
                    timers |-> cleared.timers, error |-> "none" ]

NoFinalize ==
    [ active |-> FALSE, target |-> Null, elapsedMs |-> 0, wasLooping |-> FALSE,
      preserveLoopOffset |-> 0, captured |-> 0, startedAt |-> 0 ]

\* a finalizeRecording that always takes the last clip of the list for the take
finalizeRecordingBegin_LastClip(a, t, rec, tm) ==
    LET cleared == clearRecordingAutoStop(a, tm)
        a1 == cleared.app
        target == IF Len(a1.clips) > 0 THEN a1.clips[Len(a1.clips)].id ELSE Null
    IN  IF target = Null
        THEN [ app |-> [ a1 EXCEPT !.recordingActive = FALSE, !.recordingClipId = Null ],
               timers |-> cleared.timers, finalizing |-> NoFinalize ]
        ELSE [ app |-> a1, timers |-> cleared.timers,
               finalizing |->
                 [ active |-> TRUE,
                   target |-> target,
                   elapsedMs |-> Max2(0, t - a1.recordingStart),
                   wasLooping |-> a1.isLooping,
                   preserveLoopOffset |-> IF a1.isPlaybackPlaying
                                          THEN currentPlaybackOffset(a1, t)
                                          ELSE a1.playbackPausedOffset,
                   captured |-> rec.captured,
                   startedAt |-> t ] ]

\* finalizeRecording up to its first await.  Result: [app, timers, finalizing].
finalizeRecordingBegin(a, t, rec, tm) ==
    LET cleared == clearRecordingAutoStop(a, tm)
        a1 == cleared.app
        target == IF HasClip(a1, a1.recordingClipId) THEN a1.recordingClipId
                  ELSE IF Len(a1.clips) > 0 THEN a1.clips[Len(a1.clips)].id
                  ELSE Null
    IN  IF target = Null
        THEN [ app |-> [ a1 EXCEPT !.recordingActive = FALSE, !.recordingClipId = Null ],
               timers |-> cleared.timers, finalizing |-> NoFinalize ]
        ELSE [ app |-> a1, timers |-> cleared.timers,
               finalizing |->
                 [ active |-> TRUE,
                   target |-> target,
                   elapsedMs |-> Max2(0, t - a1.recordingStart),
                   wasLooping |-> a1.isLooping,
                   preserveLoopOffset |-> IF a1.isPlaybackPlaying
                                          THEN currentPlaybackOffset(a1, t)
                                          ELSE a1.playbackPausedOffset,
                   captured |-> rec.captured,
                   startedAt |-> t ] ]

\* finalizeRecording after a successful decode; bufferDuration is
\* audioBuffer.duration.  m is [app, sources, tid].
finalizeRecordingDecoded(m, t, fin, bufferDuration) ==
    LET a == m.app
        target == ClipById(a, fin.target)
        rawDuration == Max2(fin.elapsedMs, bufferDuration)
        capped == IF target.maxDurationSec # Null /\ target.maxDurationSec > 0
                  THEN Min2(rawDuration, target.maxDurationSec)
                  ELSE rawDuration
        duration == toFixed2(capped)
        clipEnd == toFixed3(target.startTimeSec + duration)
        ready == [ a EXCEPT
                     !.clips = [ i \in 1..Len(@) |->
                                   IF @[i].id = fin.target
                                   THEN [ @[i] EXCEPT !.buffer = bufferDuration,
                                                      !.duration = duration,
                                                      !.endTimeSec = clipEnd,
                                                      !.status = "ready" ]
                                   ELSE @[i] ] ]
        assigned == assignClipToNonOverlappingTrack(ready, t, fin.target)
        done == [ assigned EXCEPT
                    !.recordingActive = FALSE,
                    !.recordingClipId = Null,
                    !.selectedClipId = fin.target,
                    !.pendingStatusMessage = "Recorded" ]
    IN  IF fin.wasLooping
        THEN refreshLoopTransportIfNeeded([ m EXCEPT !.app = done ], t, fin.preserveLoopOffset)
        ELSE [ m EXCEPT !.app = done ]

\* a catch block that resets the flags and leaves the undecoded clip in the list
finalizeRecordingFailed_KeepClip(a, fin) ==
    [ a EXCEPT
        !.recordingActive = FALSE,
        !.recordingClipId = Null,
        !.pendingStatusMessage = "decode error" ]

\* finalizeRecording's catch block followed by the catch of mediaRecorder.onstop
finalizeRecordingFailed(a, fin) ==
    [ a EXCEPT
        !.clips = SelectSeq(@, LAMBDA c : c.id # fin.target),
        !.recordingActive = FALSE,
        !.recordingClipId = Null,
        !.pendingStatusMessage = "decode error" ]

\* audioBuffer.duration of a decoded take: the captured length, possibly
\* longer by the codec's padding
DecodedDurations(captured) == { captured, captured + TickUs }
\* ------------------------------------------------- transport commands
\* Each command maps m = [app, sources, tid] to [app, sources, tid, error];
\* error is "none" when the command returns normally.
Done(m) == [ app |-> m.app, sources |-> m.sources, tid |-> m.tid, error |-> "none" ]
Thrown(m, message) == [ app |-> m.app, sources |-> m.sources, tid |-> m.tid, error |-> message ]

SessionOptions(offset, baseStartSec) ==
    [ offset |-> offset, loop |-> FALSE, baseStartSec |-> baseStartSec,
      mode |-> "session", preserveLoopingState |-> FALSE ]

startPlayback(m, t) ==
    LET sessionPlayback == buildSessionPlaybackBuffer(m.app)
    IN  IF sessionPlayback.buffer = NoBuffer THEN Thrown(m, "No ready clip yet.")
        ELSE LET offset == IF m.app.isPlaybackPaused THEN m.app.playbackPausedOffset ELSE 0
                 stopped == stopTransport(m, t, "replace")
                 started == createTransport(stopped, t, sessionPlayback.buffer,
                                SessionOptions(offset, sessionPlayback.sessionStartSec))
             IN  IF ~started.ok THEN Thrown(started, "Could not start playback.")
                 ELSE Done([ started EXCEPT !.app.isLooping = FALSE ])

\* pausePlayback that marks the transport paused before its source has ended
pausePlayback_MarksPaused(m, t) ==
    IF ~m.app.isPlaybackPlaying \/ m.app.playback.source = Null
    THEN Thrown(m, "Unable to pause playback.")
    ELSE Done(stopTransport(
                [ m EXCEPT !.app.playbackPausedOffset = currentPlaybackOffset(m.app, t),
                           !.app.isPlaybackPaused = TRUE ],
                t, "pause"))

pausePlayback(m, t) ==
    IF ~m.app.isPlaybackPlaying \/ m.app.playback.source = Null
    THEN Thrown(m, "Unable to pause playback.")
    ELSE Done(stopTransport(
                [ m EXCEPT !.app.playbackPausedOffset = currentPlaybackOffset(m.app, t) ],
                t, "pause"))

resumePlayback(m, t) ==
    IF ~m.app.isPlaybackPaused \/ m.app.isPlaybackPlaying
    THEN Thrown(m, "Unable to resume playback.")
    ELSE LET shouldLoopResume == m.app.isLooping /\ m.app.loopRegionLengthSec > 0
             resumeOffset == m.app.playbackPausedOffset
             stopped == stopTransport(m, t, "replace")
         IN  IF shouldLoopResume
             THEN LET built == IF stopped.app.loopMixBuffer = NoBuffer
                               THEN [ stopped EXCEPT !.app.loopMixBuffer = buildLoopMixBuffer(stopped.app) ]
                               ELSE stopped
                      started == startLoopTransport(built, t, resumeOffset)
                  IN  IF started.ok THEN Done(started)
                      ELSE Thrown(started, "Could not resume looping playback.")
             ELSE LET sessionPlayback == buildSessionPlaybackBuffer(stopped.app)
                  IN  IF sessionPlayback.buffer = NoBuffer
                      THEN Thrown(stopped, "Unable to resume playback.")
                      ELSE LET started == createTransport(stopped, t, sessionPlayback.buffer,
                                              SessionOptions(resumeOffset, sessionPlayback.sessionStartSec))
                           IN  IF ~started.ok THEN Thrown(started, "Could not resume playback.")
                               ELSE Done([ started EXCEPT !.app.isLooping = FALSE ])

getLoopMarkerTimeSec(a, t) ==
    IF a.isPlaybackPlaying \/ a.isPlaybackPaused
    THEN a.playback.baseStartSec + currentPlaybackOffset(a, t)
    ELSE a.playbackPlayheadSec

\* a startLoop that keeps the marker as it is read
startLoop_Unrounded(m, t) ==
    IF ~HasSessionRange(m.app) THEN Thrown(m, "No ready clip yet.")
    ELSE LET sessionRange == getSessionRange(m.app)
             marker == clamp(getLoopMarkerTimeSec(m.app, t),
                             sessionRange.sessionStartSec,
                             Max2(sessionRange.sessionStartSec,
                                  sessionRange.sessionEndSec - MIN_LOOP_REGION_SECONDS))
         IN  Done([ m EXCEPT !.app.loopSelectionStartSec = marker,
                             !.app.pendingStatusMessage = "Loop start set" ])

startLoop(m, t) ==
    IF ~HasSessionRange(m.app) THEN Thrown(m, "No ready clip yet.")
    ELSE LET sessionRange == getSessionRange(m.app)
             marker == clamp(getLoopMarkerTimeSec(m.app, t),
                             sessionRange.sessionStartSec,
                             Max2(sessionRange.sessionStartSec,
                                  sessionRange.sessionEndSec - MIN_LOOP_REGION_SECONDS))
         IN  Done([ m EXCEPT !.app.loopSelectionStartSec = toFixed3(marker),
                             !.app.pendingStatusMessage = "Loop start set" ])

\* an endLoop that commits the region length as it is measured
endLoop_Unrounded(m, t) ==
    IF m.app.isLooping /\ m.app.loopSelectionStartSec = Null
    THEN LET preserveOffset == currentPlaybackOffset(m.app, t)
             stopped == stopTransport(m, t, "endLoop")
         IN  Done([ stopped EXCEPT
                      !.app.playbackPausedOffset = preserveOffset,
                      !.app.isLooping = FALSE,
                      !.app.loopRegionStartSec = Null,
                      !.app.loopRegionLengthSec = 0,
                      !.app.loopSelectionStartSec = Null,
                      !.app.loopMixBuffer = NoBuffer ])
    ELSE IF m.app.loopSelectionStartSec = Null THEN Thrown(m, "Set loop start first.")
    ELSE IF ~HasSessionRange(m.app) THEN Thrown(m, "No ready clip yet.")
    ELSE LET sessionRange == getSessionRange(m.app)
             rawEndSec == clamp(getLoopMarkerTimeSec(m.app, t),
                                sessionRange.sessionStartSec, sessionRange.sessionEndSec)
             loopStartSec == m.app.loopSelectionStartSec
         IN  IF rawEndSec - loopStartSec < MIN_LOOP_REGION_SECONDS
             THEN Thrown(m, "Loop end must be after loop start.")
             ELSE LET currentPhase == clamp(rawEndSec - loopStartSec, 0, rawEndSec - loopStartSec)
                      stopped == stopTransport(m, t, "replace")
                      region == [ stopped.app EXCEPT
                                    !.loopRegionStartSec = loopStartSec,
                                    !.loopRegionLengthSec = rawEndSec - loopStartSec,
                                    !.loopSelectionStartSec = Null ]
                      built == [ stopped EXCEPT
                                   !.app = [ region EXCEPT !.loopMixBuffer = buildLoopMixBuffer(region) ] ]
                      started == startLoopTransport(built, t, currentPhase)
                  IN  IF ~started.ok THEN Thrown(started, "Could not start loop.")
                      ELSE Done([ started EXCEPT !.app.isPlaybackPaused = FALSE ])

endLoop(m, t) ==
    IF m.app.isLooping /\ m.app.loopSelectionStartSec = Null
    THEN LET preserveOffset == currentPlaybackOffset(m.app, t)
             stopped == stopTransport(m, t, "endLoop")
         IN  Done([ stopped EXCEPT
                      !.app.playbackPausedOffset = preserveOffset,
                      !.app.isLooping = FALSE,
                      !.app.loopRegionStartSec = Null,
                      !.app.loopRegionLengthSec = 0,
                      !.app.loopSelectionStartSec = Null,
                      !.app.loopMixBuffer = NoBuffer ])
    ELSE IF m.app.loopSelectionStartSec = Null THEN Thrown(m, "Set loop start first.")
    ELSE IF ~HasSessionRange(m.app) THEN Thrown(m, "No ready clip yet.")
    ELSE LET sessionRange == getSessionRange(m.app)
             rawEndSec == clamp(getLoopMarkerTimeSec(m.app, t),
                                sessionRange.sessionStartSec, sessionRange.sessionEndSec)
             loopStartSec == m.app.loopSelectionStartSec
         IN  IF rawEndSec - loopStartSec < MIN_LOOP_REGION_SECONDS
             THEN Thrown(m, "Loop end must be after loop start.")
             ELSE LET currentPhase == clamp(rawEndSec - loopStartSec, 0, rawEndSec - loopStartSec)
                      stopped == stopTransport(m, t, "replace")
                      region == [ stopped.app EXCEPT
                                    !.loopRegionStartSec = loopStartSec,
                                    !.loopRegionLengthSec = toFixed3(rawEndSec - loopStartSec),
                                    !.loopSelectionStartSec = Null ]
                      built == [ stopped EXCEPT
                                   !.app = [ region EXCEPT !.loopMixBuffer = buildLoopMixBuffer(region) ] ]
                      started == startLoopTransport(built, t, currentPhase)
                  IN  IF ~started.ok THEN Thrown(started, "Could not start loop.")
                      ELSE Done([ started EXCEPT !.app.isPlaybackPaused = FALSE ])

\* a START_RECORD that checks the microphone only
startRecordAction_NoActiveCheck(a, t, rec, tm, startThrows) ==
    IF ~a.micEnabled
    THEN [ app |-> a, recorder |-> rec, timers |-> tm,
           error |-> "Enable the microphone before recording." ]
    ELSE startRecordingBody(a, t, rec, tm, startThrows)

\* dispatchAction START_RECORD.  Result: [app, recorder, timers, error].
startRecordAction(a, t, rec, tm, startThrows) ==
    IF ~a.micEnabled
    THEN [ app |-> a, recorder |-> rec, timers |-> tm,
           error |-> "Enable the microphone before recording." ]
    ELSE IF a.recordingActive
    THEN [ app |-> a, recorder |-> rec, timers |-> tm, error |-> "Already recording." ]
    ELSE LET r == startRecording(a, t, rec, tm, startThrows)
         IN  IF r.error = "false"
             THEN [ r EXCEPT !.error = "Unable to start recording." ]
             ELSE r

\* dispatchAction END_RECORD.  Result: [app, recorder, timers, error].
endRecordAction(a, t, rec, tm) ==
    IF ~a.recordingActive
    THEN [ app |-> a, recorder |-> rec, timers |-> tm, error |-> "No active recording." ]
    ELSE LET r == endRecording(a, t, rec, tm)
         IN  IF r.error = "false"
             THEN [ r EXCEPT !.error = "Unable to end recording." ]
             ELSE r

\* dispatchAction PLAY
playAction(m, t) ==
    IF m.app.isPlaybackPlaying THEN pausePlayback(m, t)
    ELSE IF m.app.isPlaybackPaused THEN resumePlayback(m, t)
    ELSE startPlayback(m, t)

\* dispatchAction PAUSE
pauseAction(m, t) ==
    IF ~m.app.isPlaybackPlaying \/ m.app.playback.source = Null
    THEN Thrown(m, "Nothing is currently playing.")
    ELSE pausePlayback(m, t)

\* dispatchAction START_LOOP
startLoopAction(m, t) ==
    IF m.app.recordingActive THEN Thrown(m, "Cannot start loop while recording.")
    ELSE startLoop(m, t)

\* the command vocabulary of the dispatcher
ACTION_ALLOWLIST ==
    { "ENABLE_MIC", "START_RECORD", "END_RECORD", "PLAY", "PAUSE", "START_LOOP",
      "END_LOOP", "SET_REVERB_ENABLED", "SET_REVERB_DECAY", "SET_DELAY_ENABLED",
      "SET_DELAY_TIME", "SET_DELAY_FEEDBACK", "SET_DELAY_WET",
      "SET_DELAY_ADVANCED_CLAMP", "SET_AUTOTUNE_ENABLED", "SET_AUTOTUNE_SEMITONES",
      "TOGGLE_MONITORING" }

\* an allow-list check that lets every type through
isActionTypeAllowed_Any(type) == TRUE

isActionTypeAllowed(type) == type \in ACTION_ALLOWLIST

\* dispatchAction for a type that has no case in its switch: the error it
\* throws, from the allow-list check or else from the switch's default
dispatchUnknown(type) ==
    IF ~isActionTypeAllowed(type) THEN "Unsupported action type"
    ELSE "Unhandled action type"

\* ------------------------------------------------------------- mix samples
\* Samples are thousandths of full scale: FullScale is the sample 1.0.
\* SOFT_CLIP_GAIN is 1.15 in the same unit.
FullScale == 1000

\* 1000 * tanh(x) at x = 0, 0.125, 0.250, ... 5.0
TanhKnots ==
    << 0, 124, 245, 358, 462, 555, 635, 704,
       762, 809, 848, 880, 905, 925, 941, 954,
       964, 972, 978, 983, 987, 990, 992, 994,
       995, 996, 997, 998, 998, 999, 999, 999,
       999, 999, 1000, 1000, 1000, 1000, 1000, 1000,
       1000 >>

\* Math.tanh on thousandths: linear between the knots, 1.0 from x = 5 on
tanh(x) ==
    LET mag == IF x < 0 THEN -x ELSE x
        k == mag \div 125
        y == IF k >= 40 THEN FullScale
             ELSE TanhKnots[k + 1]
                    + ((TanhKnots[k + 2] - TanhKnots[k + 1]) * (mag % 125)) \div 125
    IN  IF x < 0 THEN -y ELSE y

\* a soft clipper that passes the sample through
softClipSample_Bypass(value) == value

softClipSample(value) ==
    LET mag == IF value < 0 THEN -value ELSE value
        scaled == (mag * SOFT_CLIP_GAIN) \div 1000
    IN  tanh(IF value < 0 THEN -scaled ELSE scaled)

\* ----------------------------------------------------------- mix builder
\* No call of the mix builder is being followed
NoMix ==
    [ start |-> Null, length |-> 0, clips |-> <<>>, levels |-> <<>>,
      built |-> FALSE, buffer |-> NoBuffer, value |-> 0 ]

\* no call of track assignment yet
NoAssignment ==
    [ called |-> FALSE, start |-> 0, end |-> 0, exclude |-> Null,
      tracks |-> << >>, trackId |-> Null ]

\* a ready clip as finalizeRecording leaves it
ReadyClip(id, trackId, startTimeSec, endTimeSec) ==
    [ id |-> id, trackId |-> trackId, startTimeSec |-> startTimeSec,
      endTimeSec |-> endTimeSec, duration |-> endTimeSec - startTimeSec,
      status |-> "ready", buffer |-> endTimeSec - startTimeSec,
      lockTrack |-> FALSE, maxDurationSec |-> Null ]

\* The windows the builder is called with: lengths from a microsecond to a
\* tenth of a second, before and after the first takes
WindowStarts == { 0, 60000, 160000 }
WindowLengths == { 1, 5, 10, 11, 20, 21, 31, 40, 1000, 33400, 50000, 100000, 101000 }

\* The clips it is called with: none, one, two that overlap, three
WindowClips ==
    { <<>>,
      << ReadyClip(1, 1, 0, 100000) >>,
      << ReadyClip(1, 1, 0, 100000), ReadyClip(2, 2, 50000, 150000) >>,
      << ReadyClip(1, 1, 0, 100000), ReadyClip(2, 2, 50000, 150000),
         ReadyClip(3, 3, 0, 200000) >> }

\* The sample every frame of a clip's buffer holds
Levels == { -1000, -400, 700, 1000 }

\* Math.floor(seconds * ctx.sampleRate)
FloorFrames(sec) == (sec * (SAMPLE_RATE \div 1000)) \div 1000

\* Whether the loop over the clip's frames writes destination frame 0 of a
\* buffer of `frames` frames: the clip overlaps the window, its overlap starts
\* within the first frame and holds a whole frame, and the source position is
\* inside the source buffer.
WritesFrameZero(c, mixStart, mixLength, frames) ==
    LET mixEnd == mixStart + mixLength
        overlapStart == Max2(mixStart, c.startTimeSec)
        overlapEnd == Min2(mixEnd, c.endTimeSec)
        overlapLength == overlapEnd - overlapStart
        destStartFrame == Max2(0, FloorFrames(overlapStart - mixStart))
        destFrames == Min2(FloorFrames(overlapLength), frames - destStartFrame)
        sourceLength == RoundDiv(c.buffer * (SAMPLE_RATE \div 1000), 1000)
        sourceFrameMilli == (overlapStart - c.startTimeSec) * (SAMPLE_RATE \div 1000)
    IN  /\ intervalsOverlap(mixStart, mixEnd, c.startTimeSec, c.endTimeSec)
        /\ overlapEnd > overlapStart
        /\ destFrames > 0
        /\ sourceLength # 0
        /\ destStartFrame = 0
        /\ sourceFrameMilli <= (sourceLength - 1) * 1000

\* accumulators[channel][0] after the clips from index i on were mixed in, in
\* the order of the list: each clip's sample is added and the sum soft-clipped
RECURSIVE accumulateFrameZero(_, _, _, _, _, _, _)
accumulateFrameZero(i, acc, clips, levels, mixStart, mixLength, frames) ==
    IF i > Len(clips) THEN acc
    ELSE accumulateFrameZero(i + 1,
             IF WritesFrameZero(clips[i], mixStart, mixLength, frames)
             THEN softClipSample(acc + levels[i])
             ELSE acc,
             clips, levels, mixStart, mixLength, frames)

\* ------------------------------------------------------ effects-engine.js
\* Samples and coefficients are thousandths; delays are tenths of a
\* millisecond.  The processor is followed on one channel.
COMB_DELAY_MS == << 301, 347, 396, 443 >>
ALLPASS_DELAY_MS == << 50, 17 >>
EARLY_TAPS_MS == << 70, 110, 170 >>
EARLY_GAINS == << 600, 350, 200 >>
ALLPASS_GAIN == 700

\* the product of a coefficient and a sample, rounded to the nearest thousandth
Mul(c, v) ==
    IF c * v >= 0 THEN (c * v + 500) \div 1000 ELSE -((500 - c * v) \div 1000)

\* a / b for b > 0, rounded to the nearest unit
Quot(a, b) == IF a >= 0 THEN (2 * a + b) \div (2 * b) ELSE -((b - 2 * a) \div (2 * b))

Zeros(n) == [ i \in 1..n |-> 0 ]

msToSamples(sampleRate, ms) == Max2(1, RoundDiv(sampleRate * ms, 10000))

normalizeParams(params) ==
    [ echo |-> [ delayMs |-> clamp(params.echo.delayMs, 200, 10000),
                 feedback |-> clamp(params.echo.feedback, 0, 990),
                 wet |-> clamp(params.echo.wet, 0, 1000),
                 dry |-> clamp(params.echo.dry, 0, 1000) ],
      reverb |-> [ roomSize |-> clamp(params.reverb.roomSize, 0, 980),
                   damp |-> clamp(params.reverb.damp, 200, 600),
                   wet |-> clamp(params.reverb.wet, 200, 500),
                   earlyMix |-> clamp(params.reverb.earlyMix, 0, 500) ] ]

\* createEchoReverbState for one channel, with the fields the self-test keeps
\* beside it: the frames fed so far, whether the output equalled the input so
\* far, the sum of |output| past frame 0, and the block produced last.
createEchoReverbState(sampleRate, params) ==
    LET normalized == normalizeParams(params)
        earlyTapSamples == [ t \in 1..Len(EARLY_TAPS_MS) |->
                               msToSamples(sampleRate, EARLY_TAPS_MS[t]) ]
        earlyMaxDelay == SetMax(SeqToSet(earlyTapSamples) \cup {1})
    IN  [ created |-> TRUE,
          params |-> normalized,
          echoBuffer |-> Zeros(msToSamples(sampleRate, normalized.echo.delayMs)),
          echoIndex |-> 0,
          combBuffers |-> [ c \in 1..Len(COMB_DELAY_MS) |->
                              Zeros(msToSamples(sampleRate, COMB_DELAY_MS[c])) ],
          combIndices |-> [ c \in 1..Len(COMB_DELAY_MS) |-> 0 ],
          combLpStates |-> [ c \in 1..Len(COMB_DELAY_MS) |-> 0 ],
          allpassBuffers |-> [ a \in 1..Len(ALLPASS_DELAY_MS) |->
                                 Zeros(msToSamples(sampleRate, ALLPASS_DELAY_MS[a])) ],
          allpassIndices |-> [ a \in 1..Len(ALLPASS_DELAY_MS) |-> 0 ],
          earlyBuffer |-> Zeros(earlyMaxDelay + 1),
          earlyTapSamples |-> earlyTapSamples,
          earlyIndex |-> 0,
          blocks |-> 0,
          enabled |-> FALSE,
          output |-> << >>,
          offset |-> 0,
          identical |-> TRUE,
          tailEnergy |-> 0 ]

\* no processor has been created
NoEffect ==
    [ created |-> FALSE,
      params |-> normalizeParams([ echo |-> [ delayMs |-> 2400, feedback |-> 450,
                                              wet |-> 380, dry |-> 900 ],
                                   reverb |-> [ roomSize |-> 740, damp |-> 350,
                                                wet |-> 300, earlyMix |-> 220 ] ]),
      echoBuffer |-> << >>, echoIndex |-> 0, combBuffers |-> << >>,
      combIndices |-> << >>, combLpStates |-> << >>, allpassBuffers |-> << >>,
      allpassIndices |-> << >>, earlyBuffer |-> << >>, earlyTapSamples |-> << >>,
      earlyIndex |-> 0, blocks |-> 0, enabled |-> FALSE, output |-> << >>,
      offset |-> 0, identical |-> TRUE, tailEnergy |-> 0 ]

\* the early reflections added to echoOut: the taps from index tap on
RECURSIVE earlyTaps(_, _, _, _)
earlyTaps(tap, earlyBuffer, earlyIndex, earlyTapSamples) ==
    IF tap > Len(earlyTapSamples) THEN 0
    ELSE LET earlyLen == Len(earlyBuffer)
             tapIndex == (earlyIndex - earlyTapSamples[tap] + earlyLen) % earlyLen
         IN  Mul(EARLY_GAINS[tap], earlyBuffer[tapIndex + 1])
               + earlyTaps(tap + 1, earlyBuffer, earlyIndex, earlyTapSamples)

RECURSIVE SumSeq(_)
SumSeq(q) == IF q = << >> THEN 0 ELSE Head(q) + SumSeq(Tail(q))

\* the comb filter bank on one frame: the buffers, indices and low-pass states
\* afterwards, and the sum of the samples read
combBank(st, reverbInput) ==
    LET reverb == st.params.reverb
        combs == 1..Len(st.combBuffers)
        buf == [ c \in combs |-> st.combBuffers[c][st.combIndices[c] + 1] ]
        fbLp == [ c \in combs |->
                    Mul(1000 - reverb.damp, buf[c]) + Mul(reverb.damp, st.combLpStates[c]) ]
    IN  [ combBuffers |-> [ c \in combs |->
                              [ st.combBuffers[c] EXCEPT ![st.combIndices[c] + 1] =
                                  reverbInput + Mul(reverb.roomSize, fbLp[c]) ] ],
          combIndices |-> [ c \in combs |-> (st.combIndices[c] + 1) % Len(st.combBuffers[c]) ],
          combLpStates |-> fbLp,
          combSum |-> SumSeq(buf) ]

\* the serial all-pass filters from index a on, fed reverbOut: the buffers and
\* indices afterwards and the sample that leaves the last filter
RECURSIVE allpassChain(_, _, _, _)
allpassChain(a, buffers, indices, reverbOut) ==
    IF a > Len(buffers)
    THEN [ allpassBuffers |-> buffers, allpassIndices |-> indices, reverbOut |-> reverbOut ]
    ELSE LET idx == indices[a]
             buf == buffers[a][idx + 1]
             y == buf - Mul(ALLPASS_GAIN, reverbOut)
         IN  allpassChain(a + 1,
                 [ buffers EXCEPT ![a][idx + 1] = reverbOut + Mul(ALLPASS_GAIN, y) ],
                 [ indices EXCEPT ![a] = (idx + 1) % Len(buffers[a]) ],
                 y)

\* the wet/dry blend written to the output, unclamped
blend_Unclamped(wet, echoOut, reverbOut) == Mul(1000 - wet, echoOut) + Mul(wet, reverbOut)

\* the wet/dry blend written to the output
blend(wet, echoOut, reverbOut) ==
    clamp(Mul(1000 - wet, echoOut) + Mul(wet, reverbOut), -FullScale, FullScale)

\* one frame passed through untouched, whatever `enabled` says
processFrame_Dry(st, sample, enabled) ==
    [ st EXCEPT !.output = Append(@, clamp(sample, -FullScale, FullScale)),
                !.echoIndex = (@ + 1) % Len(st.echoBuffer),
                !.earlyIndex = (@ + 1) % Len(st.earlyBuffer) ]

\* One frame of processEchoReverbBlock: the state afterwards with the sample
\* appended to its output
processFrame(st, sample, enabled) ==
    LET echo == st.params.echo
        reverb == st.params.reverb
        x == clamp(sample, -FullScale, FullScale)
        echoLen == Len(st.echoBuffer)
        earlyLen == Len(st.earlyBuffer)
    IN  IF ~enabled
        THEN [ st EXCEPT !.output = Append(@, x),
                         !.echoIndex = (@ + 1) % echoLen,
                         !.earlyIndex = (@ + 1) % earlyLen ]
        ELSE LET delayed == st.echoBuffer[st.echoIndex + 1]
                 echoOut == clamp(Mul(echo.dry, x) + Mul(echo.wet, delayed),
                                  -FullScale, FullScale)
                 earlyBuffer == [ st.earlyBuffer EXCEPT ![st.earlyIndex + 1] = echoOut ]
                 early == echoOut + earlyTaps(1, earlyBuffer, st.earlyIndex, st.earlyTapSamples)
                 earlyGainSum == 1000 + SumSeq(EARLY_GAINS)
                 reverbInput == Mul(1000 - reverb.earlyMix, echoOut)
                                  + Mul(reverb.earlyMix, Quot(early * 1000, earlyGainSum))
                 combs == combBank(st, reverbInput)
                 allpass == allpassChain(1, st.allpassBuffers, st.allpassIndices,
                                         Quot(combs.combSum, Len(st.combBuffers)))
                 y == blend(reverb.wet, echoOut, allpass.reverbOut)
             IN  [ st EXCEPT
                     !.echoBuffer[st.echoIndex + 1] = x + Mul(echo.feedback, delayed),
                     !.earlyBuffer = earlyBuffer,
                     !.combBuffers = combs.combBuffers,
                     !.combIndices = combs.combIndices,
                     !.combLpStates = combs.combLpStates,
                     !.allpassBuffers = allpass.allpassBuffers,
                     !.allpassIndices = allpass.allpassIndices,
                     !.output = Append(@, y),
                     !.echoIndex = (@ + 1) % echoLen,
                     !.earlyIndex = (@ + 1) % earlyLen ]

RECURSIVE processFrames(_, _, _, _)
processFrames(st, input, i, enabled) ==
    IF i > Len(input) THEN st
    ELSE processFrames(processFrame(st, input[i], enabled), input, i + 1, enabled)

\* processEchoReverbBlock(state, [input], [output], input.length, enabled)
processEchoReverbBlock(st, input, enabled) ==
    processFrames([ st EXCEPT !.output = << >>, !.enabled = enabled,
                              !.blocks = @ + 1 ],
                  input, 1, enabled)

\* The parameter sets the processor is created with: the defaults, the
\* self-test's, and the largest feedback, room and wet the clamps let through
\* (asked for beyond the clamps)
DefaultParams ==
    [ echo |-> [ delayMs |-> 2400, feedback |-> 450, wet |-> 380, dry |-> 900 ],
      reverb |-> [ roomSize |-> 740, damp |-> 350, wet |-> 300, earlyMix |-> 220 ] ]
SelfTestParams ==
    [ echo |-> [ delayMs |-> 1800, feedback |-> 500, wet |-> 420, dry |-> 850 ],
      reverb |-> [ roomSize |-> 780, damp |-> 350, wet |-> 340, earlyMix |-> 200 ] ]
LoudestParams ==
    [ echo |-> [ delayMs |-> 100, feedback |-> 1200, wet |-> 1000, dry |-> 1000 ],
      reverb |-> [ roomSize |-> 1000, damp |-> 100, wet |-> 900, earlyMix |-> 0 ] ]
EffectParams == { DefaultParams, SelfTestParams, LoudestParams }

\* The blocks fed to it: full scale, negative full scale, beyond full scale,
\* an alternating signal
BlockInputs ==
    { [ i \in 1..BlockFrames |-> FullScale ],
      [ i \in 1..BlockFrames |-> -FullScale ],
      [ i \in 1..BlockFrames |-> 2 * FullScale ],
      [ i \in 1..BlockFrames |-> IF i % 2 = 0 THEN FullScale ELSE -FullScale ] }

\* the self-test's impulse from frame `offset` on, `size` frames of it
ImpulseView(offset, size) == [ i \in 1..size |-> IF offset + i - 1 = 0 THEN FullScale ELSE 0 ]

AbsVal(v) == IF v < 0 THEN -v ELSE v

\* ------------------------------------------------------- remote receiver
\* seenActionIds and seenOrder of the receiver, with the ids it has
\* dispatched, the ids it has dispatched more than once, the replay it dropped
\* last and the next id no sender has used yet.
InitialRemote ==
    [ seenActionIds |-> {}, seenOrder |-> <<>>, dispatched |-> {},
      redispatched |-> {}, dropped |-> Null, nextId |-> 1 ]

\* a markActionId that remembers nothing
markActionId_Forget(r, actionId) == r

markActionId(r, actionId) ==
    IF actionId = Null THEN r
    ELSE IF actionId \in r.seenActionIds THEN r
    ELSE LET pushed == Append(r.seenOrder, actionId)
             added == r.seenActionIds \cup {actionId}
         IN  IF Len(pushed) > MAX_SEEN_ACTIONS
             THEN [ r EXCEPT !.seenOrder = Tail(pushed),
                             !.seenActionIds = added \ {Head(pushed)} ]
             ELSE [ r EXCEPT !.seenOrder = pushed, !.seenActionIds = added ]

wasSeenAction(r, actionId) == actionId # Null /\ actionId \in r.seenActionIds

\* handleMessage up to its dispatchAction: whether the message is dispatched,
\* and the receiver afterwards
handleMessage(r, type, actionId) ==
    IF type \notin ACTION_ALLOWLIST THEN [ dispatch |-> FALSE, remote |-> r ]
    ELSE IF actionId # Null /\ wasSeenAction(r, actionId)
    THEN [ dispatch |-> FALSE, remote |-> [ r EXCEPT !.dropped = actionId ] ]
    ELSE [ dispatch |-> TRUE,
           remote |-> LET m == markActionId(r, actionId)
                      IN  IF actionId = Null THEN m
                          ELSE [ m EXCEPT
                                   !.dispatched = @ \cup {actionId},
                                   !.redispatched = IF actionId \in r.dispatched
                                                    THEN @ \cup {actionId} ELSE @,
                                   !.nextId = IF actionId = r.nextId THEN @ + 1 ELSE @ ] ]

\* ------------------------------------------------------------- the machine
Machine == [ app |-> appState, sources |-> sources, tid |-> nextTransportId ]

NoAction == [ type |-> "none", error |-> "none", offset |-> Null ]

\* What lastAction keeps of a dispatchAction: the command's type with the error
\* it threw or the offset it captured; NoAction if it did neither.
Outcome(type, error, offset) ==
    IF error = "none" /\ offset = Null THEN NoAction
    ELSE [ type |-> type, error |-> error, offset |-> offset ]

\* state.effects.delay before any command (main.js reads it at start-up); the
\* state.js that sets it is not in this tree, so the values are assumed:
\* a feedback under the normal ceiling, the advanced clamp off, autotune off
\* with no shift.
InitialEffects ==
    [ delay |-> [ feedback |-> 35, advancedClamp |-> FALSE ],
      autotune |-> [ enabled |-> FALSE, semitones |-> 0 ] ]

\* payload.value of the SET_DELAY_FEEDBACK commands tried
FeedbackValues == { 5 * k : k \in 0..20 }

\* ------------------------------------------------------------ the operator
Cmd(type, tick) == [ type |-> type, at |-> tick * TickUs ]

Free == [ scripted |-> FALSE, todo |-> <<>> ]

\* A session with two loop overdubs: a take of two steps, a loop over it, an
\* overdub in its second half, a short overdub at its start, then a new take
\* of one step once the loop is stopped.
OverdubSession ==
    [ scripted |-> TRUE,
      todo |-> << Cmd("ENABLE_MIC", 0), Cmd("START_RECORD", 0), Cmd("END_RECORD", 1),
                  Cmd("START_LOOP", 1), Cmd("PLAY", 1), Cmd("END_LOOP", 3),
                  Cmd("START_RECORD", 4), Cmd("END_RECORD", 4),
                  Cmd("START_RECORD", 5), Cmd("END_RECORD", 5),
                  Cmd("END_LOOP", 5), Cmd("START_RECORD", 5), Cmd("END_RECORD", 6) >> ]

\* A session whose loop overdub is never ended by the operator: a take of one
\* step, a loop over it, an overdub started while the loop plays, then only
\* transport commands and one command outside the vocabulary.
UnattendedOverdub ==
    [ scripted |-> TRUE,
      todo |-> << Cmd("ENABLE_MIC", 0), Cmd("START_RECORD", 0), Cmd("END_RECORD", 1),
                  Cmd("START_LOOP", 1), Cmd("PLAY", 1), Cmd("END_LOOP", 3),
                  Cmd("START_RECORD", 4), Cmd("PAUSE", 5), Cmd("STOP", 5),
                  Cmd("PLAY", 7), Cmd("PAUSE", 8) >> ]

\* A session that commits a loop region while a take is being decoded: a take,
\* a loop over it with one overdub, the loop stopped, then a second take whose
\* END_RECORD is followed at once by the END_LOOP that commits a new region.
LoopDuringDecode ==
    [ scripted |-> TRUE,
      todo |-> << Cmd("ENABLE_MIC", 0), Cmd("START_RECORD", 0), Cmd("END_RECORD", 1),
                  Cmd("START_LOOP", 1), Cmd("PLAY", 1), Cmd("END_LOOP", 3),
                  Cmd("START_RECORD", 4), Cmd("END_RECORD", 4), Cmd("END_LOOP", 5),
                  Cmd("START_LOOP", 6), Cmd("PLAY", 6), Cmd("START_RECORD", 6),
                  Cmd("END_RECORD", 8), Cmd("END_LOOP", 8) >> ]

\* A command dispatched at an instant between two clock steps
CmdAt(type, at) == [ type |-> type, at |-> at ]

\* A session whose loop markers are set while the take plays, at instants that
\* are no whole number of milliseconds: a take of two steps, playback, a loop
\* start, a loop end too close to it, a loop end far enough, a new loop start
\* while the loop plays.
OffGridLoop ==
    [ scripted |-> TRUE,
      todo |-> << Cmd("ENABLE_MIC", 0), Cmd("START_RECORD", 0), Cmd("END_RECORD", 2),
                  Cmd("PLAY", 3), CmdAt("START_LOOP", 333400),
                  CmdAt("END_LOOP", 366800), CmdAt("END_LOOP", 433900),
                  CmdAt("START_LOOP", 466700) >> ]

\* A session with an overdub over a loop whose length is no whole number of
\* hundredths of a second: a take of two steps, playback, a loop of 67 ms set
\* while it plays, an overdub that is left to its automatic stop, a pause.
OffGridOverdub ==
    [ scripted |-> TRUE,
      todo |-> << Cmd("ENABLE_MIC", 0), Cmd("START_RECORD", 0), Cmd("END_RECORD", 2),
                  Cmd("PLAY", 3), CmdAt("START_LOOP", 333400),
                  CmdAt("END_LOOP", 400400), CmdAt("START_RECORD", 450300),
                  Cmd("PAUSE", 7) >> ]

\* A session that pauses the loop while an overdub is being decoded: the 67 ms
\* loop again, an overdub ended by the operator, a pause 20 ms later, and a
\* resume once the paused source has ended.
PauseDuringDecode ==
    [ scripted |-> TRUE,
      todo |-> << Cmd("ENABLE_MIC", 0), Cmd("START_RECORD", 0), Cmd("END_RECORD", 2),
                  Cmd("PLAY", 3), CmdAt("START_LOOP", 333400),
                  CmdAt("END_LOOP", 400400), CmdAt("START_RECORD", 450300),
                  Cmd("END_RECORD", 5), CmdAt("PAUSE", 520000), Cmd("PLAY", 6) >> ]

\* A session that enables the microphone while a generated song loops: the
\* song is added and played, a loop is set over its second half when it has
\* played through, and 30 ms into the loop the microphone is enabled and a
\* take is started.
MicDuringSongLoop ==
    [ scripted |-> TRUE,
      todo |-> << Cmd("ADD_SONG", 0), Cmd("PLAY", 0), Cmd("START_LOOP", 1),
                  Cmd("END_LOOP", 1), CmdAt("ENABLE_MIC", 130000),
                  CmdAt("START_RECORD", 130000) >> ]

Agendas ==
    { Free, OverdubSession, UnattendedOverdub, LoopDuringDecode, OffGridLoop,
      OffGridOverdub, PauseDuringDecode, MicDuringSongLoop }

\* The operator may dispatch a command of this type now
Scheduled(type) ==
    agenda.scripted =>
        /\ agenda.todo # <<>>
        /\ Head(agenda.todo).type = type
        /\ Head(agenda.todo).at = now

Advance == IF agenda.scripted THEN [ agenda EXCEPT !.todo = Tail(@) ] ELSE agenda

\* The clock may advance: a free operator is followed for MaxTicks steps, a
\* script until its next command is due.
MayTick ==
    IF agenda.scripted
    THEN agenda.todo # <<>> /\ Head(agenda.todo).at > now
    ELSE now + TickUs <= MaxTicks * TickUs

\* A free operator records at most MaxClips takes and starts at most
\* MaxTransports transports.
WithinClips(a) == agenda.scripted \/ a.nextClipIndex <= MaxClips + 1
WithinTransports(tid) == agenda.scripted \/ tid <= MaxTransports + 1

NoEnded == [ id |-> Null, active |-> FALSE ]

Init ==
    /\ now = 0
    /\ appState = InitialAppState
    /\ effects = InitialEffects
    /\ sources = {}
    /\ recorder = IdleRecorder
    /\ finalizing = NoFinalize
    /\ timers = {}
    /\ nextTransportId = 1
    /\ lastEnded = NoEnded
    /\ agenda \in Agendas
    /\ lastAction = NoAction
    /\ remote = InitialRemote
    /\ mixed = NoMix
    /\ effectState = NoEffect
    /\ assignment = NoAssignment

\* Callbacks the event loop has queued or that are due: the ended event of a
\* finished source, the recorder's stop event, an expired timer.
CallbackDue ==
    \/ \E s \in sources : SourceFinished(s, now)
    \/ recorder.stopQueued
    \/ \E deadline \in timers : now >= deadline

\* The time to the next instant the model looks at: one clock step, or less
\* when the script's next command is due before that
ClockStep ==
    IF agenda.scripted /\ agenda.todo # <<>> /\ Head(agenda.todo).at < now + TickUs
    THEN Head(agenda.todo).at - now
    ELSE TickUs

\* A decode still running can run for another clock step
DecodeWithinBound ==
    finalizing.active => now + ClockStep <= finalizing.startedAt + MaxDecodeTicks * TickUs

\* The clock advances by one step.  The event loop has run every due callback
\* before it does, and the UI ticker's frame callback (startUiTicker's tick)
\* has run at the new time.
Tick ==
    /\ MayTick
    /\ ~CallbackDue
    /\ DecodeWithinBound
    /\ now' = now + ClockStep
    /\ appState' = updatePlayheadPosition(appState, now + ClockStep)
    /\ UNCHANGED <<assignment, effectState, mixed, remote, effects, sources, recorder, finalizing, timers,
                   nextTransportId, lastEnded, agenda, lastAction>>

\* dispatchAction ENABLE_MIC: ensureContext, then enableMic; granted: whether
\* getUserMedia resolves
EnableMic ==
    \E granted \in BOOLEAN :
        /\ Scheduled("ENABLE_MIC")
        /\ agenda' = Advance
        /\ appState' =
             IF appState.audioReady THEN appState
             ELSE IF ~granted THEN [ appState EXCEPT !.context = TRUE ]
             ELSE [ appState EXCEPT
                      !.context = TRUE,
                      !.mediaRecorder = TRUE,
                      !.micEnabled = TRUE,
                      !.audioReady = TRUE,
                      !.playback.source = Null,
                      !.pendingStatusMessage = "Mic enabled" ]
        /\ effects' = IF appState.audioReady THEN effects
                      ELSE updateEffectsNodes(effects, TRUE)
        /\ lastAction' = Outcome("ENABLE_MIC", IF appState.audioReady \/ granted THEN "none" ELSE "NotAllowedError", Null)
        /\ UNCHANGED <<assignment, effectState, mixed, remote, now, sources, recorder, finalizing, timers, nextTransportId, lastEnded>>

\* dispatchAction START_RECORD
StartRecord ==
    \E startThrows \in BOOLEAN :
        LET r == startRecordAction(appState, now, recorder, timers, startThrows)
        IN  /\ Scheduled("START_RECORD")
            /\ WithinClips(r.app)
            /\ agenda' = Advance
            /\ appState' = r.app
            /\ recorder' = r.recorder
            /\ timers' = r.timers
            /\ lastAction' = Outcome("START_RECORD", r.error, Null)
            /\ UNCHANGED <<assignment, effectState, mixed, remote, now, effects, sources, finalizing, nextTransportId, lastEnded>>

\* dispatchAction END_RECORD
EndRecord ==
    LET r == endRecordAction(appState, now, recorder, timers)
    IN  /\ Scheduled("END_RECORD")
        /\ agenda' = Advance
        /\ appState' = r.app
        /\ recorder' = r.recorder
        /\ timers' = r.timers
        /\ lastAction' = Outcome("END_RECORD", r.error, Null)
        /\ UNCHANGED <<assignment, effectState, mixed, remote, now, effects, sources, finalizing, nextTransportId, lastEnded>>

\* a timer callback that returns without stopping the recorder
AutoStop_TimerLost ==
    \E deadline \in timers :
        /\ now >= deadline
        /\ timers' = timers \ {deadline}
        /\ UNCHANGED <<assignment, effectState, mixed, remote, now, appState, effects, sources, recorder, finalizing,
                       nextTransportId, lastEnded, agenda, lastAction>>

\* the auto-stop timer armed by startRecording fires
AutoStop ==
    \E deadline \in timers :
        /\ now >= deadline
        /\ timers' = timers \ {deadline}
        /\ recorder' = IF appState.recordingActive /\ appState.mediaRecorder
                          /\ recorder.state = "recording"
                       THEN RecorderStop(recorder, now)
                       ELSE recorder
        /\ UNCHANGED <<assignment, effectState, mixed, remote, now, appState, effects, sources, finalizing, nextTransportId,
                       lastEnded, agenda, lastAction>>

\* mediaRecorder.onstop: finalizeRecording runs up to the decode
OnStop ==
    /\ recorder.stopQueued
    /\ ~finalizing.active
    /\ LET r == finalizeRecordingBegin(appState, now, recorder, timers)
       IN  /\ appState' = r.app
           /\ timers' = r.timers
           /\ finalizing' = r.finalizing
    /\ recorder' = IdleRecorder
    /\ UNCHANGED <<assignment, effectState, mixed, remote, now, effects, sources, nextTransportId, lastEnded, agenda, lastAction>>

\* decodeAudioData resolves and finalizeRecording runs to its end
DecodeOk ==
    /\ finalizing.active
    /\ \E bufferDuration \in DecodedDurations(finalizing.captured) :
         LET r == finalizeRecordingDecoded(Machine, now, finalizing, bufferDuration)
         IN  /\ WithinTransports(r.tid)
             /\ appState' = r.app
             /\ sources' = r.sources
             /\ nextTransportId' = r.tid
             /\ effects' = IF r.tid # nextTransportId
                           THEN updateEffectsNodes(effects, r.app.context)
                           ELSE effects
    /\ finalizing' = NoFinalize
    /\ UNCHANGED <<assignment, effectState, mixed, remote, now, recorder, timers, lastEnded, agenda, lastAction>>

\* decodeAudioData rejects: finalizeRecording's catch, then onstop's catch
DecodeFail ==
    /\ finalizing.active
    /\ appState' = finalizeRecordingFailed(appState, finalizing)
    /\ finalizing' = NoFinalize
    /\ UNCHANGED <<assignment, effectState, mixed, remote, now, effects, sources, recorder, timers, nextTransportId,
                   lastEnded, agenda, lastAction>>

\* A transport command dispatched: r is its outcome, offset the playback
\* offset it captured (Null if it captured none).  createTransport's call of
\* updateEffectsNodes is applied when a transport was created.
Dispatch(type, r, offset) ==
    /\ Scheduled(type)
    /\ WithinTransports(r.tid)
    /\ agenda' = Advance
    /\ appState' = IF r.tid # nextTransportId
                   THEN updatePlaybackRate(r.app, effects)
                   ELSE r.app
    /\ sources' = r.sources
    /\ nextTransportId' = r.tid
    /\ effects' = IF r.tid # nextTransportId
                  THEN updateEffectsNodes(effects, r.app.context)
                  ELSE effects
    /\ lastAction' = Outcome(type, r.error, offset)
    /\ UNCHANGED <<assignment, effectState, mixed, remote, now, recorder, finalizing, timers, lastEnded>>

\* the offset pausePlayback records, when the command goes through it
PauseCaptured(r) ==
    IF r.error = "none" /\ appState.isPlaybackPlaying /\ appState.playback.source # Null
    THEN r.app.playbackPausedOffset
    ELSE Null

\* the offset endLoop captures when it stops the loop
EndLoopCaptured(r) ==
    IF appState.isLooping /\ appState.loopSelectionStartSec = Null
    THEN r.app.playbackPausedOffset
    ELSE Null

Play == Dispatch("PLAY", playAction(Machine, now), Null)
Pause == LET r == pauseAction(Machine, now) IN Dispatch("PAUSE", r, PauseCaptured(r))
StartLoop == Dispatch("START_LOOP", startLoopAction(Machine, now), Null)
\* an END_LOOP that forgets the pending loop start when it fails
EndLoop_DropsMarker ==
    LET r == endLoop(Machine, now)
        dropped == IF r.error = "none" THEN r
                   ELSE [ r EXCEPT !.app.loopSelectionStartSec = Null ]
    IN  Dispatch("END_LOOP", dropped, EndLoopCaptured(dropped))

EndLoop == LET r == endLoop(Machine, now) IN Dispatch("END_LOOP", r, EndLoopCaptured(r))

\* dispatchAction SET_DELAY_FEEDBACK
SetDelayFeedback ==
    \E value \in FeedbackValues :
        /\ Scheduled("SET_DELAY_FEEDBACK")
        /\ agenda' = Advance
        /\ effects' = setDelayFeedback(effects, appState.context, value)
        /\ lastAction' = Outcome("SET_DELAY_FEEDBACK", "none", Null)
        /\ UNCHANGED <<assignment, effectState, mixed, remote, now, appState, sources, recorder, finalizing, timers, nextTransportId, lastEnded>>

\* dispatchAction SET_DELAY_ADVANCED_CLAMP
SetDelayAdvancedClamp ==
    \E enabled \in BOOLEAN :
        /\ Scheduled("SET_DELAY_ADVANCED_CLAMP")
        /\ agenda' = Advance
        /\ effects' = setDelayAdvancedClamp(effects, appState.context, enabled)
        /\ lastAction' = Outcome("SET_DELAY_ADVANCED_CLAMP", "none", Null)
        /\ UNCHANGED <<assignment, effectState, mixed, remote, now, appState, sources, recorder, finalizing, timers, nextTransportId, lastEnded>>

\* payload.value of the SET_AUTOTUNE_SEMITONES commands tried: no shift, an
\* octave up, and a value above the range the command clamps to
SemitoneValues == { 0, 12, 15 }

\* dispatchAction SET_AUTOTUNE_ENABLED
SetAutotuneEnabled ==
    \E enabled \in BOOLEAN :
        /\ Scheduled("SET_AUTOTUNE_ENABLED")
        /\ agenda' = Advance
        /\ effects' = setAutotuneEnabled(effects, appState.context, enabled)
        /\ appState' = updatePlaybackRate(appState, effects')
        /\ lastAction' = Outcome("SET_AUTOTUNE_ENABLED", "none", Null)
        /\ UNCHANGED <<assignment, effectState, mixed, remote, now, sources, recorder, finalizing, timers, nextTransportId, lastEnded>>

\* dispatchAction SET_AUTOTUNE_SEMITONES
SetAutotuneSemitones ==
    \E value \in SemitoneValues :
        /\ Scheduled("SET_AUTOTUNE_SEMITONES")
        /\ agenda' = Advance
        /\ effects' = setAutotuneSemitones(effects, appState.context, value)
        /\ appState' = updatePlaybackRate(appState, effects')
        /\ lastAction' = Outcome("SET_AUTOTUNE_SEMITONES", "none", Null)
        /\ UNCHANGED <<assignment, effectState, mixed, remote, now, sources, recorder, finalizing, timers, nextTransportId, lastEnded>>

\* the ended event of a source is delivered: source.onended runs
\* an ended event whose handler takes every end for the end of a pause
OnEndedOf_AsPause(s) ==
    /\ s \in sources
    /\ SourceFinished(s, now)
    /\ appState' = onended([ appState EXCEPT !.playback.manualStopReason = "pause" ], now, s)
    /\ sources' = sources \ {s}
    /\ lastEnded' = [ id |-> s.id, active |-> appState.activeTransportId = s.id ]
    /\ UNCHANGED <<assignment, effectState, mixed, remote, now, effects, recorder, finalizing, timers, nextTransportId,
                   agenda, lastAction>>

OnEndedOf(s) ==
    /\ s \in sources
    /\ SourceFinished(s, now)
    /\ appState' = onended(appState, now, s)
    /\ sources' = sources \ {s}
    /\ lastEnded' = [ id |-> s.id, active |-> appState.activeTransportId = s.id ]
    /\ UNCHANGED <<assignment, effectState, mixed, remote, now, effects, recorder, finalizing, timers, nextTransportId,
                   agenda, lastAction>>

OnEnded == \E s \in sources : OnEndedOf(s)

\* command types outside the vocabulary that callers send
UnknownTypes == { "STOP" }

\* dispatchAction with a type outside the vocabulary: it logs the rejection
\* (logAction only reads the state) and throws
Unsupported ==
    \E type \in UnknownTypes :
        /\ Scheduled(type)
        /\ agenda' = Advance
        /\ lastAction' = Outcome(type, dispatchUnknown(type), Null)
        /\ UNCHANGED <<assignment, effectState, mixed, remote, now, appState, effects, sources, recorder, finalizing, timers,
                       nextTransportId, lastEnded>>

\* The ids a remote message may carry: none, an id no sender has used yet, or
\* a replay of the oldest or of the latest id used.
RemoteIds(r) ==
    {Null} \cup { i \in {r.nextId} : i <= MaxRemoteIds }
           \cup { i \in {1, r.nextId - 1} : 1 <= i /\ i < r.nextId }

RemoteTypes == { "SET_DELAY_ADVANCED_CLAMP", "STOP" }

\* A message arrives on the push channel: handleMessage, and the
\* dispatchAction it ends with.  The receiver is followed until it first
\* dispatches an id again.
ReceiveRemote ==
    /\ remote.redispatched = {}
    /\ \E type \in RemoteTypes, actionId \in RemoteIds(remote), enabled \in BOOLEAN :
         LET h == handleMessage(remote, type, actionId)
         IN  /\ remote' = h.remote
             /\ effects' = IF h.dispatch
                           THEN setDelayAdvancedClamp(effects, appState.context, enabled)
                           ELSE effects
             /\ lastAction' = IF h.dispatch THEN Outcome(type, "none", Null) ELSE lastAction
    /\ UNCHANGED <<assignment, effectState, mixed, now, appState, sources, recorder, finalizing, timers,
                   nextTransportId, lastEnded, agenda>>

\* The recording and transport engine
\* the trackId 'AI Song' that addSongToTimeline gives its clip: no track of the
\* tracks list, whose ids are track-1, track-2, ...
AiSongTrack == 0

\* the id ai-song-<timestamp> of the clip made from a song: no clip-n id
AiSongId(clipNumber) == 1000 + clipNumber

\* audioBuffer.duration of the songs added
SongDurations == { TickUs }

\* ChatbotController.addSongToTimeline: ensureContext, then the song is fetched
\* and decoded (fetched: whether both succeed) and pushed as a ready clip
AddSong ==
    \E fetched \in BOOLEAN, duration \in SongDurations :
        /\ Scheduled("ADD_SONG")
        /\ WithinClips([ appState EXCEPT !.nextClipIndex = @ + 1 ])
        /\ Cardinality({ i \in 1..Len(appState.clips) :
                           appState.clips[i].trackId = AiSongTrack }) < MaxSongs
        /\ agenda' = Advance
        /\ appState' =
             IF ~fetched THEN [ appState EXCEPT !.context = TRUE ]
             ELSE LET clip == ReadyClip(AiSongId(appState.nextClipIndex), AiSongTrack,
                                        0, duration)
                  IN  [ appState EXCEPT
                          !.context = TRUE,
                          !.clips = Append(@, clip),
                          !.nextClipIndex = @ + 1,
                          !.selectedClipId = clip.id ]
        /\ effects' = IF appState.context THEN effects
                      ELSE updateEffectsNodes(effects, TRUE)
        /\ UNCHANGED <<assignment, effectState, mixed, remote, now, sources, recorder,
                       finalizing, timers, nextTransportId, lastEnded, lastAction>>

Next ==
    \/ AddSong
    \/ Tick
    \/ EnableMic
    \/ StartRecord
    \/ EndRecord
    \/ AutoStop
    \/ OnStop
    \/ DecodeOk
    \/ DecodeFail
    \/ Play
    \/ Pause
    \/ StartLoop
    \/ EndLoop
    \/ Unsupported
    \/ OnEnded

Spec == Init /\ [][Next]_vars

\* The delay-effect commands, before and after the audio context exists
NextEffects ==
    \/ EnableMic
    \/ SetDelayFeedback
    \/ SetDelayAdvancedClamp

SpecEffects == Init /\ [][NextEffects]_vars

\* A session that retunes a take while it plays: the shift is chosen before
\* the audio context exists, a take of two steps is played, autotune is
\* switched and the shift changed during the playback, then a pause and a
\* resume.
RetuneWhilePlaying ==
    [ scripted |-> TRUE,
      todo |-> << Cmd("SET_AUTOTUNE_SEMITONES", 0), Cmd("ENABLE_MIC", 0),
                  Cmd("START_RECORD", 0), Cmd("END_RECORD", 2), Cmd("PLAY", 3),
                  CmdAt("SET_AUTOTUNE_ENABLED", 350000),
                  CmdAt("SET_AUTOTUNE_SEMITONES", 360000),
                  CmdAt("SET_AUTOTUNE_ENABLED", 370000), CmdAt("PAUSE", 380000),
                  Cmd("PLAY", 5) >> ]

\* The same over a loop: a take of two steps, a loop over it, autotune
\* switched and the shift changed while the loop plays, then a pause.
RetuneWhileLooping ==
    [ scripted |-> TRUE,
      todo |-> << Cmd("ENABLE_MIC", 0), Cmd("START_RECORD", 0), Cmd("END_RECORD", 2),
                  Cmd("START_LOOP", 2), Cmd("END_LOOP", 4), Cmd("PLAY", 4),
                  CmdAt("SET_AUTOTUNE_SEMITONES", 450000),
                  CmdAt("SET_AUTOTUNE_ENABLED", 460000),
                  CmdAt("SET_AUTOTUNE_SEMITONES", 470000), CmdAt("PAUSE", 480000) >> ]

InitAutotune ==
    /\ now = 0
    /\ appState = InitialAppState
    /\ effects = InitialEffects
    /\ sources = {}
    /\ recorder = IdleRecorder
    /\ finalizing = NoFinalize
    /\ timers = {}
    /\ nextTransportId = 1
    /\ lastEnded = NoEnded
    /\ agenda \in { RetuneWhilePlaying, RetuneWhileLooping }
    /\ lastAction = NoAction
    /\ remote = InitialRemote
    /\ mixed = NoMix
    /\ effectState = NoEffect
    /\ assignment = NoAssignment

\* The transport commands with the autotune commands
NextAutotune ==
    \/ Tick
    \/ EnableMic
    \/ StartRecord
    \/ EndRecord
    \/ OnStop
    \/ DecodeOk
    \/ DecodeFail
    \/ Play
    \/ Pause
    \/ StartLoop
    \/ EndLoop
    \/ OnEnded
    \/ SetAutotuneEnabled
    \/ SetAutotuneSemitones

SpecAutotune == InitAutotune /\ [][NextAutotune]_vars

\* buildMixedBufferForWindow called with the window and the clips chosen
BuildWindow ==
    /\ mixed.start # Null
    /\ ~mixed.built
    /\ LET buffer == buildMixedBufferForWindow(appState, mixed.start,
                                                mixed.length, mixed.clips)
       IN  mixed' = [ mixed EXCEPT
                        !.built = TRUE,
                        !.buffer = buffer,
                        !.value = IF buffer = NoBuffer THEN 0
                                  ELSE accumulateFrameZero(1, 0, mixed.clips, mixed.levels,
                                           mixed.start, mixed.length, buffer.frames) ]
    /\ UNCHANGED <<assignment, effectState, now, appState, effects, sources, recorder, finalizing, timers,
                   nextTransportId, lastEnded, agenda, lastAction, remote>>

\* The mix builder alone, in a context that exists, on a window and a clip
\* list drawn from the sets above
InitMix ==
    /\ now = 0
    /\ appState = [ InitialAppState EXCEPT !.context = TRUE ]
    /\ effects = InitialEffects
    /\ sources = {}
    /\ recorder = IdleRecorder
    /\ finalizing = NoFinalize
    /\ timers = {}
    /\ nextTransportId = 1
    /\ lastEnded = NoEnded
    /\ agenda = Free
    /\ lastAction = NoAction
    /\ remote = InitialRemote
    /\ \E start \in WindowStarts, length \in WindowLengths, clips \in WindowClips :
         \E levels \in [ 1..Len(clips) -> Levels ] :
             mixed = [ start |-> start, length |-> length, clips |-> clips,
                       levels |-> levels, built |-> FALSE, buffer |-> NoBuffer,
                       value |-> 0 ]
    /\ effectState = NoEffect
    /\ assignment = NoAssignment

NextMix == BuildWindow

SpecMix == InitMix /\ [][NextMix]_vars

\* processEchoReverbBlock on one block, enabled or bypassed
ProcessBlock ==
    /\ effectState.created
    /\ effectState.blocks < MaxBlocks
    /\ \E input \in BlockInputs, enabled \in BOOLEAN :
         effectState' = processEchoReverbBlock(effectState, input, enabled)
    /\ UNCHANGED <<assignment, now, appState, effects, sources, recorder, finalizing, timers,
                   nextTransportId, lastEnded, agenda, lastAction, remote, mixed>>

\* the state every side model shares with the engine, untouched
EngineIdle ==
    /\ now = 0
    /\ appState = InitialAppState
    /\ effects = InitialEffects
    /\ sources = {}
    /\ recorder = IdleRecorder
    /\ finalizing = NoFinalize
    /\ timers = {}
    /\ nextTransportId = 1
    /\ lastEnded = NoEnded
    /\ agenda = Free
    /\ lastAction = NoAction
    /\ remote = InitialRemote
    /\ mixed = NoMix
    /\ assignment = NoAssignment

\* The processor alone, created with one of the parameter sets
InitEffect ==
    /\ EngineIdle
    /\ \E params \in EffectParams : effectState = createEchoReverbState(EffectSampleRate, params)

NextEffect == ProcessBlock

SpecEffect == InitEffect /\ [][NextEffect]_vars

\* One pass of the loop of runEchoReverbOfflineSelfTest over the impulse: the
\* next block is processed and compared with the input
SelfTestImpulseBlock ==
    /\ effectState.created
    /\ effectState.offset < EffectSampleRate
    /\ LET size == Min2(SelfTestBlock, EffectSampleRate - effectState.offset)
           inView == ImpulseView(effectState.offset, size)
           st == processEchoReverbBlock(effectState, inView, TRUE)
           frames == 1..size
       IN  effectState' = [ st EXCEPT
                     !.offset = @ + size,
                     !.identical = @ /\ \A i \in frames : st.output[i] = inView[i],
                     !.tailEnergy = @ + SumSeq([ i \in frames |->
                                       IF effectState.offset + i - 1 > 0
                                       THEN AbsVal(st.output[i]) ELSE 0 ]) ]
    /\ UNCHANGED <<assignment, now, appState, effects, sources, recorder, finalizing, timers,
                   nextTransportId, lastEnded, agenda, lastAction, remote, mixed>>

\* The impulse part of the self-test: one second of impulse through a
\* processor created with the self-test's parameters, or with the defaults
InitSelfTest ==
    /\ EngineIdle
    /\ \E params \in { SelfTestParams, DefaultParams } :
         effectState = createEchoReverbState(EffectSampleRate, params)

NextSelfTest == SelfTestImpulseBlock

SpecSelfTest == InitSelfTest /\ [][NextSelfTest]_vars

\* The registries track assignment is asked about, times in microseconds:
\* one ready clip; a second one just finalized over it, still on the track it
\* was recorded on; three tracks of which the middle one is busy later; a take
\* being recorded on the second track
TrackRegistries ==
    { [ tracks |-> << 1 >>, recording |-> Null,
        clips |-> << ReadyClip(1, 1, 0, 3000000) >> ],
      [ tracks |-> << 1 >>, recording |-> Null,
        clips |-> << ReadyClip(1, 1, 0, 3000000),
                     ReadyClip(2, 1, 1000000, 4000000) >> ],
      [ tracks |-> << 1, 2, 3 >>, recording |-> Null,
        clips |-> << ReadyClip(1, 1, 0, 3000000),
                     ReadyClip(2, 2, 3000000, 5000000) >> ],
      [ tracks |-> << 1, 2 >>, recording |-> 2,
        clips |-> << ReadyClip(1, 1, 0, 1000000),
                     [ ReadyClip(2, 2, 1000000, 1000000) EXCEPT
                         !.status = "recording", !.endTimeSec = Null,
                         !.duration = 0, !.buffer = NoBuffer ] >> ] }

ProbeTimes == { 0, 1000000, 2000000, 3000000, 4000000, 6000000 }

\* getTrackForTimeRange asked about a range, with or without an excluded clip
AssignRange ==
    /\ Len(appState.tracks) < MaxTracks
    /\ \E probeStart \in ProbeTimes, probeEnd \in ProbeTimes,
          excludeClipId \in {Null} \cup { appState.clips[i].id : i \in 1..Len(appState.clips) } :
         LET r == getTrackForTimeRange(appState, now, probeStart, probeEnd, excludeClipId)
         IN  /\ probeStart < probeEnd
             /\ appState' = r.app
             /\ assignment' = [ called |-> TRUE, start |-> probeStart, end |-> probeEnd,
                                exclude |-> excludeClipId, tracks |-> appState.tracks,
                                trackId |-> r.trackId ]
    /\ UNCHANGED <<now, effects, sources, recorder, finalizing, timers, nextTransportId,
                   lastEnded, agenda, lastAction, remote, mixed, effectState>>

\* assignClipToNonOverlappingTrack on a ready clip whose track is not locked
ReassignClip ==
    /\ Len(appState.tracks) < MaxTracks
    /\ \E i \in 1..Len(appState.clips) :
         LET clip == appState.clips[i]
             after == assignClipToNonOverlappingTrack(appState, now, clip.id)
         IN  /\ clip.status = "ready"
             /\ clip.endTimeSec # Null
             /\ ~clip.lockTrack
             /\ appState' = after
             /\ assignment' = [ called |-> TRUE, start |-> clip.startTimeSec,
                                end |-> clip.endTimeSec, exclude |-> clip.id,
                                tracks |-> appState.tracks,
                                trackId |-> ClipById(after, clip.id).trackId ]
    /\ UNCHANGED <<now, effects, sources, recorder, finalizing, timers, nextTransportId,
                   lastEnded, agenda, lastAction, remote, mixed, effectState>>

\* Track assignment alone, two seconds into the session
InitTracks ==
    /\ now = 2000000
    /\ \E registry \in TrackRegistries :
         appState = [ InitialAppState EXCEPT
                        !.context = TRUE,
                        !.sessionStartSec = 0,
                        !.tracks = registry.tracks,
                        !.clips = registry.clips,
                        !.recordingActive = registry.recording # Null,
                        !.recordingClipId = registry.recording,
                        !.recordingStart = 1000000,
                        !.nextClipIndex = Len(registry.clips) + 1 ]
    /\ effects = InitialEffects
    /\ sources = {}
    /\ recorder = IdleRecorder
    /\ finalizing = NoFinalize
    /\ timers = {}
    /\ nextTransportId = 1
    /\ lastEnded = NoEnded
    /\ agenda = Free
    /\ lastAction = NoAction
    /\ remote = InitialRemote
    /\ mixed = NoMix
    /\ assignment = NoAssignment
    /\ effectState = NoEffect

NextTracks == AssignRange \/ ReassignClip

SpecTracks == InitTracks /\ [][NextTracks]_vars

\* The receiver of remote actions alone
NextRemote == ReceiveRemote

SpecRemote == Init /\ [][NextRemote]_vars

\* ------------------------------------------------------------------ claims
Clips == appState.clips

ClipPairs == { <<i, j>> \in (1..Len(Clips)) \X (1..Len(Clips)) : i < j }

\* the effective interval of a clip: [start, end) when ready, [start,
\* session-now) while it is the take being recorded
EffectiveInterval(clip) ==
    clipIntervalAtTime(appState, clip, nowSessionSec(appState, now))

\* C1 as stated: no two distinct clips with the same trackId have overlapping
\* effective intervals, the recording clip's interval being [start, session-now).
C1_NoOverlapOnTrack ==
    \A p \in ClipPairs :
        LET c == Clips[p[1]]
            d == Clips[p[2]]
        IN  c.trackId = d.trackId =>
              ~intervalsOverlap(EffectiveInterval(c)[1], EffectiveInterval(c)[2],
                                EffectiveInterval(d)[1], EffectiveInterval(d)[2])

\* C1 amended: no two distinct ready clips made by START_RECORD, END_RECORD
\* and finalization, with the same trackId, have overlapping intervals
\* [startTimeSec, endTimeSec).
C1_ReadyClipsNoOverlapOnTrack ==
    \A p \in ClipPairs :
        LET c == Clips[p[1]]
            d == Clips[p[2]]
        IN  (c.status = "ready" /\ d.status = "ready"
               /\ c.trackId = d.trackId /\ c.trackId # AiSongTrack) =>
              ~intervalsOverlap(c.startTimeSec, c.endTimeSec, d.startTimeSec, d.endTimeSec)

\* C1 witness: a finalized overdub lies inside the span of an earlier ready
\* take, on another track, and a third ready clip shares a track with one of them.
C1_Witness ==
    /\ \E p \in ClipPairs :
         /\ Clips[p[1]].status = "ready" /\ Clips[p[2]].status = "ready"
         /\ Clips[p[1]].trackId # Clips[p[2]].trackId
         /\ intervalsOverlap(Clips[p[1]].startTimeSec, Clips[p[1]].endTimeSec,
                             Clips[p[2]].startTimeSec, Clips[p[2]].endTimeSec)
    /\ \E p \in ClipPairs :
         /\ Clips[p[1]].status = "ready" /\ Clips[p[2]].status = "ready"
         /\ Clips[p[1]].trackId = Clips[p[2]].trackId

\* C2: at every instant at most one buffer source is playing, also during the
\* stop-fade window of a replaced source.
C2_AtMostOneSourcePlaying ==
    Cardinality({ s \in sources : ~SourceFinished(s, now) }) <= 1

\* the start offset a transport resumed at offset p may have
ResumeOffsets(p, pb) ==
    IF pb.loop THEN { modulo(p, pb.duration) }
    ELSE { clamp(p, 0, pb.duration), clamp(p, 0, Max2(0, pb.duration - 1)) }

\* C3: when a PLAY follows an accepted PAUSE with no command in between, the
\* transport it starts has startOffset equal to the offset p the PAUSE recorded
\* (modulo the loop length in loop mode, clamped to the duration otherwise).
C3_ResumeAtPausedOffset ==
    [][ ( /\ lastAction.type = "PAUSE"
          /\ lastAction.error = "none"
          /\ Play
          /\ nextTransportId' # nextTransportId )
        => appState'.playback.startOffset
             \in ResumeOffsets(lastAction.offset, appState'.playback) ]_vars

\* the ended callback of the transport playback refers to has been delivered
PlaybackEndedDelivered == \A s \in sources : s.id # appState.playback.transportId

\* C4: once END_LOOP has stopped the loop and the stopped source's ended
\* callback has run, the machine is paused (not playing) and
\* playbackPausedOffset is the loop offset captured at the command.
C4_EndLoopLeavesPaused ==
    ( /\ lastAction.type = "END_LOOP"
      /\ lastAction.error = "none"
      /\ lastAction.offset # Null
      /\ PlaybackEndedDelivered )
    => ( /\ ~appState.isPlaybackPlaying
         /\ appState.isPlaybackPaused
         /\ appState.playbackPausedOffset = lastAction.offset )

\* C5: when a finalization restarts the loop transport, the new transport
\* starts at the loop phase the replaced transport has at that moment.
C5_RefreshKeepsPhase ==
    [][ ( DecodeOk /\ nextTransportId' # nextTransportId )
        => appState'.playback.startOffset
             = modulo(currentPlaybackOffset(appState, now), appState.loopRegionLengthSec) ]_vars

\* C6: in every reachable state delay feedback is at most 0.65 with the
\* advanced clamp off and at most 0.75 with it on, with or without a context.
C6_FeedbackWithinClamp ==
    effects.delay.feedback <= (IF effects.delay.advancedClamp THEN 75 ELSE 65)

\* a START_RECORD step that threw
StartRecordFailed ==
    /\ StartRecord
    /\ lastAction'.type = "START_RECORD"
    /\ lastAction'.error # "none"

C8_DecodeFailureDiscardsClip ==
    [][ DecodeFail
        => /\ appState'.clips = SelectSeq(appState.clips, LAMBDA c : c.id # finalizing.target)
           /\ \A i \in 1..Len(appState'.clips) : appState'.clips[i].status = "ready"
           /\ ~appState'.recordingActive
           /\ appState'.recordingClipId = Null
           /\ appState'.pendingStatusMessage = "decode error" ]_vars

\* C8 witness: a decode has failed and a clip recorded earlier is still there
C8_Witness ==
    /\ appState.pendingStatusMessage = "decode error"
    /\ ~appState.recordingActive
    /\ Len(Clips) > 0
    /\ appState.nextClipIndex > Len(Clips) + 1

\* the engine state an ended callback writes
TransportFields(a) ==
    << a.isPlaybackPlaying, a.isPlaybackPaused, a.isLooping, a.playbackPausedOffset,
       a.playbackPlayheadSec, a.playback.source >>

\* C9: the ended callback of a transport that is no longer the active one
\* changes no engine state.
C9_StaleEndedIsNoOp ==
    [][ \A s \in sources :
          ( OnEndedOf(s) /\ s.id # appState.activeTransportId )
          => TransportFields(appState') = TransportFields(appState) ]_vars

\* C9 witness: the callback of a replaced transport has run while its
\* successor is playing
C9_Witness ==
    /\ lastEnded.id # Null
    /\ ~lastEnded.active
    /\ appState.isPlaybackPlaying
    /\ appState.playback.source # Null

RecordingClips == { i \in 1..Len(Clips) : Clips[i].status = "recording" }

\* C10: at most one clip has status 'recording' in every reachable state, and
\* a START_RECORD dispatched while recordingActive fails without creating a clip.
C10_SingleRecording ==
    /\ [](Cardinality(RecordingClips) <= 1)
    /\ [][ ( StartRecord /\ appState.recordingActive )
           => /\ lastAction'.error # "none"
              /\ appState'.clips = appState.clips
              /\ appState'.nextClipIndex = appState.nextClipIndex ]_vars

\* C10 witness: START_RECORD was refused while the previous take was decoding
C10_Witness ==
    /\ lastAction.type = "START_RECORD"
    /\ lastAction.error = "Already recording."
    /\ finalizing.active
    /\ Cardinality(RecordingClips) = 1

\* the takes started while a loop was playing (lockTrack)
LoopTakes == { i \in 1..Len(Clips) : Clips[i].lockTrack }

\* C11 (first parts): a loop-bounded take keeps the trackId it was given when
\* it started, through finalization and every later command.
C11_LoopTakeKeepsTrack ==
    [][ \A i \in LoopTakes :
          \A j \in 1..Len(appState.clips') :
              appState.clips'[j].id = Clips[i].id =>
                  appState.clips'[j].trackId = Clips[i].trackId ]_vars

InitUnattended == Init /\ agenda = UnattendedOverdub

\* The steps of a session in which no song is generated
NextUnattended ==
    \/ Tick
    \/ EnableMic
    \/ StartRecord
    \/ EndRecord
    \/ AutoStop
    \/ OnStop
    \/ DecodeOk
    \/ DecodeFail
    \/ Play
    \/ Pause
    \/ StartLoop
    \/ EndLoop
    \/ Unsupported
    \/ OnEnded

SpecUnattended ==
    /\ InitUnattended
    /\ [][NextUnattended]_vars
    /\ WF_vars(EnableMic) /\ WF_vars(StartRecord) /\ WF_vars(EndRecord)
    /\ WF_vars(Play) /\ WF_vars(Pause) /\ WF_vars(StartLoop) /\ WF_vars(EndLoop)
    /\ WF_vars(Unsupported)
    /\ WF_vars(Tick)
    /\ WF_vars(AutoStop)
    /\ WF_vars(OnStop)
    /\ WF_vars(DecodeFail \/ DecodeOk)
    /\ WF_vars(OnEnded)

\* the last instant the operator is followed to
Horizon ==
    IF agenda.scripted
    THEN IF agenda.todo = <<>> THEN now ELSE agenda.todo[Len(agenda.todo)].at
    ELSE MaxTicks * TickUs

\* a loop-bounded take is being captured and its maxDurationSec ends within
\* the horizon
LoopTakeRecording ==
    /\ appState.recordingActive
    /\ recorder.state = "recording"
    /\ HasClip(appState, appState.recordingClipId)
    /\ LET clip == ClipById(appState, appState.recordingClipId)
       IN  /\ clip.lockTrack
           /\ appState.recordingStart + clip.maxDurationSec <= Horizon

\* C12: a loop-bounded take that is recording is eventually stopped, with or
\* without an END_RECORD, and once its decode has settled recordingActive is
\* false again.
C12_LoopTakeStops ==
    /\ LoopTakeRecording ~> recorder.state # "recording"
    /\ LoopTakeRecording ~> ~appState.recordingActive

\* C12 witness: the auto-stop timer, not END_RECORD, has stopped the capture of
\* a loop-bounded take (END_RECORD clears recordingAutoStopTimer before it stops).
C12_Witness ==
    /\ recorder.stopQueued
    /\ appState.recordingActive
    /\ appState.recordingAutoStopTimer # Null
    /\ now >= appState.recordingAutoStopTimer
    /\ ClipById(appState, appState.recordingClipId).lockTrack

\* the ids of the ready clips a mix of the committed loop region is rendered
\* from now
LoopRegionClips ==
    { c.id : c \in { d \in SeqToSet(getReadyClipsWithTime(appState)) :
                       intervalsOverlap(appState.loopRegionStartSec,
                                        appState.loopRegionStartSec + appState.loopRegionLengthSec,
                                        d.startTimeSec, d.endTimeSec) } }

LoopRegionCommitted ==
    /\ appState.loopRegionStartSec # Null
    /\ appState.loopRegionLengthSec > 0
    /\ appState.loopMixBuffer # NoBuffer

\* C13: whenever a loop region is committed and no finalization is in flight,
\* the cached loopMixBuffer is the mix of exactly the ready clips that overlap
\* the region.
C13_LoopMixBufferIsCurrent ==
    (LoopRegionCommitted /\ ~finalizing.active) =>
        appState.loopMixBuffer.content = LoopRegionClips

\* C14: a command whose type is not in the allow-list is rejected with the
\* 'Unsupported action type' error and changes no engine state: clips, tracks,
\* recording flags, transport state, loop region, effect parameters.
C14_UnsupportedChangesNothing ==
    [][ Unsupported =>
          /\ lastAction'.error = "Unsupported action type"
          /\ UNCHANGED <<appState, effects, sources, recorder, finalizing, timers,
                         nextTransportId>> ]_vars

\* C14 witness: an unsupported command was rejected while a take was being
\* recorded and a transport was playing.
C14_Witness ==
    /\ lastAction.type \notin ACTION_ALLOWLIST
    /\ lastAction.error = "Unsupported action type"
    /\ appState.recordingActive
    /\ appState.isPlaybackPlaying

\* C15 as stated: no id is ever dispatched into the engine a second time.
C15_NoSecondDispatch == remote.redispatched = {}

\* the ids first dispatched after id
NewerIds(id) == { j \in remote.dispatched : j > id }

\* C15 amended: an id is dispatched a second time only after at least
\* MAX_SEEN_ACTIONS other ids were dispatched since its first dispatch.
C15_NoSecondDispatchWithinWindow ==
    \A id \in remote.redispatched : Cardinality(NewerIds(id)) >= MAX_SEEN_ACTIONS

\* C15 witness: a replay of the oldest id was dropped after MAX_SEEN_ACTIONS - 1
\* other ids had been dispatched.
C15_Witness ==
    /\ remote.dropped = 1
    /\ Cardinality(NewerIds(1)) = MAX_SEEN_ACTIONS - 1
    /\ remote.redispatched = {}


\* ---- C16
HasReadyClip == \E i \in 1..Len(appState.clips) : appState.clips[i].status = "ready"

\* the playhead a loop marker is taken from
MarkerPlayhead ==
    IF appState.isPlaybackPlaying \/ appState.isPlaybackPaused
    THEN appState.playback.baseStartSec + currentPlaybackOffset(appState, now)
    ELSE appState.playbackPlayheadSec

\* the playhead clamped into [sessionStart, max(sessionStart, sessionEnd - 0.05)]
ClampedStartMarker ==
    LET r == getSessionRange(appState)
    IN  clamp(MarkerPlayhead, r.sessionStartSec,
              Max2(r.sessionStartSec, r.sessionEndSec - MIN_LOOP_REGION_SECONDS))

\* what START_LOOP must leave alone
StartLoopFrame ==
    /\ appState'.isPlaybackPlaying = appState.isPlaybackPlaying
    /\ appState'.isPlaybackPaused = appState.isPlaybackPaused
    /\ appState'.isLooping = appState.isLooping
    /\ appState'.loopRegionStartSec = appState.loopRegionStartSec
    /\ appState'.loopRegionLengthSec = appState.loopRegionLengthSec
    /\ appState'.loopMixBuffer = appState.loopMixBuffer
    /\ appState'.playback = appState.playback
    /\ appState'.activeTransportId = appState.activeTransportId
    /\ sources' = sources

\* C16 as stated: START_LOOP with a ready clip returns, sets the pending loop
\* start to the playhead clamped into [sessionStart, max(sessionStart,
\* sessionEnd - 0.05)] and leaves the transport state, the committed region and
\* the loop mix buffer unchanged.
C16_StartLoopSetsClampedPlayhead ==
    [][ StartLoop /\ HasReadyClip =>
          /\ lastAction'.error = "none"
          /\ appState'.loopSelectionStartSec = ClampedStartMarker
          /\ StartLoopFrame ]_vars

\* some ready clip ends after it starts
HasReadyClipWithLength ==
    \E i \in 1..Len(appState.clips) :
        /\ appState.clips[i].status = "ready"
        /\ appState.clips[i].endTimeSec > appState.clips[i].startTimeSec

\* C16 amended: START_LOOP with a ready clip that ends after it starts and no
\* recording in progress returns, sets the pending loop start to the clamped
\* playhead rounded to the millisecond, and leaves the transport state, the
\* committed region and the loop mix buffer unchanged.
C16_StartLoopSetsRoundedMarker ==
    [][ StartLoop /\ HasReadyClipWithLength /\ ~appState.recordingActive =>
          /\ lastAction'.error = "none"
          /\ appState'.loopSelectionStartSec = ((ClampedStartMarker + 500) \div 1000) * 1000
          /\ StartLoopFrame ]_vars

\* C16 witness: a START_LOOP returned while the session was playing with its
\* playhead between two milliseconds, and the transport plays on.
C16_Witness ==
    /\ agenda.scripted
    /\ Len(agenda.todo) = 3
    /\ appState.loopSelectionStartSec = 33000
    /\ now = 333400
    /\ appState.isPlaybackPlaying
    /\ ~appState.isLooping


\* ---- C17
\* END_LOOP finds a pending loop start and a playhead far enough after it
LoopEndFarEnough ==
    /\ appState.loopSelectionStartSec # Null
    /\ MarkerPlayhead - appState.loopSelectionStartSec >= MIN_LOOP_REGION_SECONDS

\* frames of a buffer of this length at the context's sample rate
FramesOf(lengthSec) == (2 * lengthSec * (SAMPLE_RATE \div 1000) + 1000) \div 2000

\* the transport is left playing in loop mode
PlayingInLoopMode ==
    /\ appState'.isPlaybackPlaying
    /\ ~appState'.isPlaybackPaused
    /\ appState'.isLooping
    /\ appState'.playback.source # Null
    /\ appState'.playback.loop
    /\ \E s \in sources' : s.id = appState'.playback.source /\ s.loop

\* C17 as stated: END_LOOP with a pending start s and a playhead e with
\* e - s >= 50 ms commits the region {s, e - s}, clears the pending start,
\* builds a loop mix buffer of round((e - s) * sampleRate) frames and leaves
\* the transport playing in loop mode.
C17_EndLoopCommitsRegion ==
    [][ EndLoop /\ LoopEndFarEnough =>
          LET s == appState.loopSelectionStartSec
              e == MarkerPlayhead
          IN  /\ lastAction'.error = "none"
              /\ appState'.loopRegionStartSec = s
              /\ appState'.loopRegionLengthSec = e - s
              /\ appState'.loopSelectionStartSec = Null
              /\ appState'.loopMixBuffer.frames = FramesOf(e - s)
              /\ PlayingInLoopMode ]_vars

\* C17 amended: END_LOOP with a pending start s and a playhead e with
\* e - s >= 50 ms commits the region {s, e - s rounded to the millisecond},
\* clears the pending start, builds a loop mix buffer of round(length *
\* sampleRate) frames for that rounded length and leaves the transport playing
\* in loop mode.
C17_EndLoopCommitsRoundedRegion ==
    [][ EndLoop /\ LoopEndFarEnough =>
          LET s == appState.loopSelectionStartSec
              e == MarkerPlayhead
              length == (((e - s) + 500) \div 1000) * 1000
          IN  /\ lastAction'.error = "none"
              /\ appState'.loopRegionStartSec = s
              /\ appState'.loopRegionLengthSec = length
              /\ appState'.loopSelectionStartSec = Null
              /\ appState'.loopMixBuffer.frames = FramesOf(length)
              /\ PlayingInLoopMode ]_vars

\* C17 witness: the loop committed from the start marker at 0.033 s and the
\* playhead at 0.1339 s: a region of 0.101 s, 4848 frames, playing.
C17_Witness ==
    /\ appState.loopRegionStartSec = 33000
    /\ appState.loopRegionLengthSec = 101000
    /\ appState.loopSelectionStartSec = Null
    /\ appState.loopMixBuffer.frames = 4848
    /\ appState.isLooping
    /\ appState.isPlaybackPlaying
    /\ now = 433900


\* ---- C18
\* END_LOOP finds a pending loop start and a playhead less than 50 ms after it
LoopEndTooClose ==
    /\ appState.loopSelectionStartSec # Null
    /\ MarkerPlayhead - appState.loopSelectionStartSec < MIN_LOOP_REGION_SECONDS

\* END_LOOP finds neither a pending loop start nor an active loop
NothingToEnd == appState.loopSelectionStartSec = Null /\ ~appState.isLooping

\* C18: END_LOOP with a pending start whose region would be shorter than 50 ms,
\* or with neither a pending start nor an active loop, fails with an error and
\* leaves the pending start, the committed region, isLooping and the active
\* transport unchanged.
C18_EndLoopFailureChangesNothing ==
    [][ EndLoop /\ (LoopEndTooClose \/ NothingToEnd) =>
          /\ lastAction'.type = "END_LOOP"
          /\ lastAction'.error \in { "Loop end must be after loop start.",
                                     "Set loop start first." }
          /\ appState'.loopSelectionStartSec = appState.loopSelectionStartSec
          /\ appState'.loopRegionStartSec = appState.loopRegionStartSec
          /\ appState'.loopRegionLengthSec = appState.loopRegionLengthSec
          /\ appState'.isLooping = appState.isLooping
          /\ appState'.playback = appState.playback
          /\ appState'.activeTransportId = appState.activeTransportId
          /\ sources' = sources ]_vars

\* C18 witness: an END_LOOP 33.8 ms after the loop start failed, the pending
\* start is kept and the session transport plays on.
C18_Witness ==
    /\ lastAction.type = "END_LOOP"
    /\ lastAction.error = "Loop end must be after loop start."
    /\ appState.loopSelectionStartSec = 33000
    /\ now = 366800
    /\ appState.isPlaybackPlaying
    /\ ~appState.isLooping


\* ---- C19
\* s is the active transport's source, it does not loop and no stop was asked
\* of it
PlaysToItsEnd(s) ==
    /\ ~s.loop
    /\ s.stopAt = Null
    /\ appState.playback.source = s.id
    /\ appState.activeTransportId = s.id
    /\ appState.playback.manualStopReason = "none"

\* C19: when a non-looping transport reaches the end of its buffer with no
\* stop requested, the machine is stopped (not playing, not paused, no source)
\* and the playhead is baseStartSec plus the buffer's duration.
C19_NaturalEndStopsAtEnd ==
    [][ \A s \in sources :
          OnEndedOf(s) /\ PlaysToItsEnd(s) =>
              /\ ~appState'.isPlaybackPlaying
              /\ ~appState'.isPlaybackPaused
              /\ appState'.playback.source = Null
              /\ appState'.playbackPlayheadSec = appState.playback.baseStartSec + s.duration ]_vars

\* C19 witness: the session transport played a take of one clock step to its
\* end; the machine is stopped with the playhead at the end of the take.
C19_Witness ==
    /\ lastEnded.id # Null
    /\ lastEnded.active
    /\ appState.playback.mode = "session"
    /\ ~appState.playback.loop
    /\ appState.playback.startOffset = 0
    /\ now = appState.playback.startedAt + appState.playback.duration
    /\ appState.playback.duration = TickUs
    /\ ~appState.isPlaybackPlaying
    /\ ~appState.isPlaybackPaused
    /\ appState.playback.source = Null
    /\ appState.playbackPlayheadSec = appState.playback.baseStartSec + TickUs


\* ---- C20
\* C20 as stated: a buffer built for a window of positive length has
\* round(lengthSec * sampleRate) frames, whatever the clips that overlap it.
C20_FramesAreRoundedLength ==
    mixed.built /\ mixed.length > 0 => mixed.buffer.frames = FramesOf(mixed.length)

\* C20 amended: a buffer built for a window of positive length has
\* round(lengthSec * sampleRate) frames, or one frame where that rounds to
\* zero, whatever the clips that overlap it.
C20_FramesAreRoundedLengthAtLeastOne ==
    mixed.built /\ mixed.length > 0 =>
        mixed.buffer.frames = (IF FramesOf(mixed.length) = 0 THEN 1
                               ELSE FramesOf(mixed.length))

\* C20 witness: a window of 0.101 s over three overlapping clips was built
\* with 4848 frames.
C20_Witness ==
    /\ mixed.built
    /\ mixed.length = 101000
    /\ mixed.buffer.frames = 4848
    /\ mixed.buffer.content = {1, 2, 3}


\* ---- C21
\* the clips whose sample reached destination frame 0 of the window built
Contributors ==
    { i \in 1..Len(mixed.clips) :
        WritesFrameZero(mixed.clips[i], mixed.start, mixed.length, mixed.buffer.frames) }

\* C21: every sample of a rendered mix buffer lies in [-1, 1], however many
\* ready clips with samples in [-1, 1] overlap the frame.
C21_MixSampleWithinFullScale ==
    mixed.built => mixed.value >= -FullScale /\ mixed.value <= FullScale

\* C21 witness: three clips at full scale were mixed into one frame and the
\* sample written is within full scale.
C21_Witness ==
    /\ mixed.built
    /\ Cardinality(Contributors) = 3
    /\ \A i \in Contributors : mixed.levels[i] = FullScale
    /\ mixed.value > 0
    /\ mixed.value <= FullScale


\* ---- C22
\* C22: every sample of a block processed with the effect enabled lies in
\* [-1, 1], for every parameter set, input and state left by earlier blocks.
C22_EffectOutputWithinFullScale ==
    effectState.created /\ effectState.enabled =>
        \A i \in 1..Len(effectState.output) :
            effectState.output[i] >= -FullScale /\ effectState.output[i] <= FullScale

\* C22 witness: after four earlier blocks, an enabled block at the largest
\* feedback and room size the clamps allow came out at full scale.
C22_Witness ==
    /\ effectState.created
    /\ effectState.enabled
    /\ effectState.blocks = MaxBlocks
    /\ effectState.params.echo.feedback = 990
    /\ effectState.params.reverb.roomSize = 980
    /\ \E i \in 1..Len(effectState.output) : effectState.output[i] = FullScale


\* ---- C23
\* C23: once the whole impulse (full scale at frame 0, silence after) has gone
\* through the enabled processor, the output differs from the input and the
\* sum of |output[i]| over i > 0 is positive.
C23_ImpulseHasTail ==
    effectState.created /\ effectState.offset = EffectSampleRate =>
        ~effectState.identical /\ effectState.tailEnergy > 0

\* C23 witness: the self-test's processor has been fed the whole impulse, and
\* its first block already differed from the input.
C23_Witness ==
    /\ effectState.created
    /\ effectState.params = normalizeParams(SelfTestParams)
    /\ effectState.offset = EffectSampleRate
    /\ effectState.blocks > 1
    /\ ~effectState.identical


\* ---- C24
\* C24: a clip that exists before and after a step has the same startTimeSec
\* after it as before, whichever operation the step is (finalization, track
\* reassignment, loop commit, playback, pause, resume, ...).
C24_StartTimeNeverChanges ==
    [][ \A i \in 1..Len(Clips) :
          \A j \in 1..Len(appState.clips') :
              appState.clips'[j].id = Clips[i].id =>
                  appState.clips'[j].startTimeSec = Clips[i].startTimeSec ]_vars

\* C24 witness: a take that started after the session's origin has been
\* finalized, and playback has since been paused.
C24_Witness ==
    /\ appState.isPlaybackPaused
    /\ \E i \in 1..Len(Clips) :
         /\ Clips[i].status = "ready"
         /\ Clips[i].startTimeSec > 0


\* ---- C25
\* no clip other than the excluded one, on the k-th track of the state before
\* the call, has an effective interval that overlaps [start, end)
TrackQualifies(k, call) ==
    \A i \in 1..Len(Clips) :
        LET interval == clipIntervalAtTime(appState, Clips[i], nowSessionSec(appState, now))
        IN  Clips[i].id # call.exclude /\ Clips[i].trackId = call.tracks[k] =>
                ~(call.start < interval[2] /\ call.end > interval[1])

\* C25: a call of track assignment returns the first track, in creation
\* order, that qualifies and leaves the track list alone; when no track
\* qualifies it appends exactly one new track and returns that one.
C25_FirstFreeTrackOrNewTrack ==
    [][ LET call == assignment'
            qualifying == { k \in 1..Len(appState.tracks) : TrackQualifies(k, call) }
        IN  /\ call.called
            /\ call.tracks = appState.tracks
            /\ IF qualifying # {}
               THEN /\ \E k \in qualifying :
                         /\ call.trackId = appState.tracks[k]
                         /\ \A j \in qualifying : k <= j
                    /\ appState'.tracks = appState.tracks
               ELSE /\ \A k \in 1..Len(appState.tracks) : appState.tracks[k] # call.trackId
                    /\ appState'.tracks = Append(appState.tracks, call.trackId) ]_vars

\* C25 witness: clip A is ready at [0, 3 s) on track 1, and clip B, finalized
\* at [1 s, 4 s), has been assigned to track 2, which was appended for it.
C25_Witness ==
    /\ assignment.called
    /\ assignment.exclude = 2
    /\ assignment.tracks = << 1 >>
    /\ assignment.trackId = 2
    /\ appState.tracks = << 1, 2 >>
    /\ Len(Clips) = 2
    /\ Clips[1].trackId = 1 /\ Clips[1].startTimeSec = 0 /\ Clips[1].endTimeSec = 3000000
    /\ Clips[2].trackId = 2 /\ Clips[2].startTimeSec = 1000000 /\ Clips[2].endTimeSec = 4000000


\* ---- C26
\* the takes bounded by a loop that have been finalized
ReadyLoopTakes ==
    { i \in 1..Len(Clips) :
        /\ Clips[i].status = "ready"
        /\ Clips[i].maxDurationSec # Null
        /\ Clips[i].maxDurationSec > 0 }

\* C26: every ready loop-bounded clip has a duration of at most its
\* maxDurationSec (the cap of min(max(elapsed, decoded), maxDurationSec)), and
\* ends at startTimeSec + duration.
C26_LoopTakeWithinMaxDuration ==
    \A i \in ReadyLoopTakes :
        /\ Clips[i].duration <= Clips[i].maxDurationSec
        /\ Clips[i].endTimeSec = Clips[i].startTimeSec + Clips[i].duration


\* ---- C27
\* a loop region is active and its transport is playing
LoopRegionPlaying ==
    /\ appState.isLooping
    /\ appState.isPlaybackPlaying
    /\ appState.loopRegionStartSec # Null
    /\ appState.loopRegionLengthSec > 0

\* the offset the loop transport has reached within the region
CurrentLoopOffset ==
    (appState.playback.startOffset + (now - appState.playback.startedAt))
        % appState.loopRegionLengthSec

ReadyClips == { i \in 1..Len(Clips) : Clips[i].status = "ready" }

\* the start time the rule gives a take started now
RuledStartSec ==
    IF LoopRegionPlaying THEN appState.loopRegionStartSec + CurrentLoopOffset
    ELSE IF ReadyClips # {} THEN Clips[SetMax(ReadyClips)].endTimeSec
    ELSE IF appState.sessionStartSec = Null THEN 0
    ELSE now - appState.sessionStartSec

\* the takes a step adds to the registry
NewTakes == { j \in 1..Len(appState.clips') : appState.clips'[j].id = appState.nextClipIndex }

\* C27: a new take starts at the loop's start plus its current offset when a
\* loop region is playing, else at the end of the most recent ready clip, else
\* at the session-relative current time.
C27_TakeStartsAtRuledTime ==
    [][ \A j \in NewTakes : appState.clips'[j].startTimeSec = RuledStartSec ]_vars

\* The same rule with the rounding to the millisecond that startRecording
\* applies to the start it stores.  It fails too: once enableMic has dropped
\* playback.source while the loop plays, the offset read is the one the loop
\* transport was started at.
C27_TakeStartsAtRoundedRuledTime ==
    [][ \A j \in NewTakes :
          appState.clips'[j].startTimeSec = RoundDiv(RuledStartSec, 1000) * 1000 ]_vars

\* a take has been started while the 67 ms loop was playing, at an instant
\* that is no whole number of milliseconds into the loop.
C27_Witness ==
    /\ LoopRegionPlaying
    /\ appState.recordingActive
    /\ now = 450300
    /\ HasClip(appState, appState.recordingClipId)
    /\ ClipById(appState, appState.recordingClipId).startTimeSec = 83000


\* ---- C28
\* the sum of the samples of the clips that overlap destination frame 0
RECURSIVE SumOfLevels(_)
SumOfLevels(S) ==
    IF S = {} THEN 0
    ELSE LET i == CHOOSE x \in S : TRUE
         IN  mixed.levels[i] + SumOfLevels(S \ {i})

\* C28: the value written to a destination frame is the soft clipper applied
\* once to the sum of the samples of all the ready clips that overlap it.
C28_MixSampleIsClippedSum ==
    mixed.built => mixed.value = softClipSample(SumOfLevels(Contributors))


\* ---- C29
\* C29: isPlaybackPlaying and isPlaybackPaused are never both true, whatever
\* the interleaving of commands, finalizations and source-ended callbacks.
C29_NeverPlayingAndPaused ==
    ~(appState.isPlaybackPlaying /\ appState.isPlaybackPaused)

\* C29 witness: the loop was paused, its source has ended, and the transport
\* is paused and not playing.
C29_Witness ==
    /\ appState.isPlaybackPaused
    /\ ~appState.isPlaybackPlaying
    /\ appState.isLooping
    /\ appState.loopRegionLengthSec > 0
    /\ lastEnded.active


\* ---- C30
\* the last command dispatched was a PAUSE that was accepted
PauseAccepted == lastAction.type = "PAUSE" /\ lastAction.error = "none"

\* C30: once a PAUSE has been accepted, no step other than a command starts a
\* transport or makes a stopped transport play: in particular not the end of
\* a recording's finalization, inside the stop fade or after it.
C30_NoRestartAfterPause ==
    [][ PauseAccepted /\ lastAction' = lastAction =>
          /\ nextTransportId' = nextTransportId
          /\ appState'.activeTransportId = appState.activeTransportId
          /\ ~appState.isPlaybackPlaying => ~appState'.isPlaybackPlaying ]_vars


\* ---- C31
\* a step that completes a recording's finalization
FinalizationCompletes == finalizing.active /\ ~finalizing'.active

\* C31: while a loop is paused, the completion of a recording's finalization
\* leaves playbackPausedOffset as it was.
C31_FinalizationKeepsPausedOffset ==
    [][ appState.isLooping /\ appState.isPlaybackPaused /\ FinalizationCompletes =>
          appState'.playbackPausedOffset = appState.playbackPausedOffset ]_vars


\* ---- C32
\* C32: whenever isPlaybackPlaying is true, playback.source is the source of
\* the active transport, which has not ended: PAUSE and a replacing start can
\* stop it.
C32_PlayingHasItsSource ==
    appState.isPlaybackPlaying =>
        /\ appState.playback.source # Null
        /\ appState.playback.source = appState.activeTransportId
        /\ \E s \in sources : s.id = appState.playback.source


\* ---- C38
\* C38: every clip of the clip list has a trackId that is the id of a track of
\* the tracks list, whether it was recorded or added from a generated song.
C38_ClipTrackIsListed ==
    \A i \in 1..Len(Clips) :
        \E k \in 1..Len(appState.tracks) : appState.tracks[k] = Clips[i].trackId

\* C33: a change of playback rate leaves the playback offset where it is:
\* when an autotune command changes the autotune settings while a transport
\* plays, currentPlaybackOffset at that instant is the same after the
\* command as before it.
C33_OffsetContinuousAcrossRateChange ==
    [][ (appState.isPlaybackPlaying /\ appState.playback.source # Null
           /\ effects'.autotune # effects.autotune)
        => currentPlaybackOffset(appState', now') = currentPlaybackOffset(appState, now) ]_vars

\* C34: recordingActive is true exactly when some clip has status
\* "recording", and recordingClipId is then the id of every such clip.
C34_RecordingActiveIffRecordingClip ==
    /\ appState.recordingActive
         <=> (\E i \in 1..Len(appState.clips) : appState.clips[i].status = "recording")
    /\ \A i \in 1..Len(appState.clips) :
         appState.clips[i].status = "recording"
            => appState.recordingClipId = appState.clips[i].id

\* a second take is being recorded after the first became ready
C34_Witness ==
    /\ appState.recordingActive
    /\ \E i, j \in 1..Len(appState.clips) :
         /\ appState.clips[i].status = "ready"
         /\ appState.clips[j].status = "recording"
         /\ appState.recordingClipId = appState.clips[j].id

\* C35: a clip that is ready stays as it is: every step keeps it in the list
\* with the endTimeSec, duration, buffer and trackId it had, so finalizing a
\* take changes no clip that was ready before.
C35_ReadyClipNeverRewritten ==
    [][ \A i \in 1..Len(appState.clips) :
          appState.clips[i].status = "ready"
            => \E j \in 1..Len(appState'.clips) :
                 /\ appState'.clips[j].id = appState.clips[i].id
                 /\ appState'.clips[j].status = "ready"
                 /\ appState'.clips[j].endTimeSec = appState.clips[i].endTimeSec
                 /\ appState'.clips[j].duration = appState.clips[i].duration
                 /\ appState'.clips[j].buffer = appState.clips[i].buffer
                 /\ appState'.clips[j].trackId = appState.clips[i].trackId ]_vars

\* a take has been finalized over a clip that was ready before it: two takes
\* that overlap in time are both ready
C35_Witness ==
    /\ ~finalizing.active
    /\ \E i, j \in 1..Len(appState.clips) :
         /\ i < j
         /\ appState.clips[i].status = "ready"
         /\ appState.clips[j].status = "ready"
         /\ appState.selectedClipId = appState.clips[j].id
         /\ appState.clips[j].trackId # AiSongTrack
         /\ appState.clips[j].startTimeSec < appState.clips[i].endTimeSec
         /\ appState.clips[i].startTimeSec < appState.clips[j].endTimeSec

\* C36: whenever isLooping is true a loop region is committed
\* (loopRegionStartSec is not null and loopRegionLengthSec > 0) and
\* loopMixBuffer is not null.
C36_LoopingHasRegionAndBuffer ==
    appState.isLooping
      => /\ appState.loopRegionStartSec # Null
         /\ appState.loopRegionLengthSec > 0
         /\ appState.loopMixBuffer # NoBuffer

\* C37: selectedClipId is null or the id of a clip that is in the clip list.
C37_SelectedClipExists ==
    appState.selectedClipId # Null => HasClip(appState, appState.selectedClipId)

\* C39: a pending auto-stop timer is always the one armed for the take that is
\* being recorded now: there is a timer only while a loop-bounded take
\* records, it is the timer recordingAutoStopTimer holds, and its deadline is
\* that take's start plus that take's maximum duration.  So no timer of an
\* ended take is left to stop a later one.
C39_TimerBelongsToCurrentTake ==
    \A deadline \in timers :
        /\ appState.recordingActive
        /\ recorder.state = "recording"
        /\ appState.recordingAutoStopTimer = deadline
        /\ HasClip(appState, appState.recordingClipId)
        /\ LET clip == ClipById(appState, appState.recordingClipId)
           IN  /\ clip.status = "recording"
               /\ clip.lockTrack
               /\ deadline = appState.recordingStart
                               + Max2(1, RoundDiv(clip.maxDurationSec, 1000)) * 1000

\* a second loop-bounded take is recording with its timer pending, after the
\* first loop-bounded take has become ready
C39_Witness ==
    /\ timers # {}
    /\ appState.recordingActive
    /\ \E i \in 1..Len(appState.clips) :
         /\ appState.clips[i].status = "ready"
         /\ appState.clips[i].lockTrack
====
